---- MODULE Spec2Model ----
(***************************************************************************)
(* Forum data layer: like toggle + count refresh (Topic / Comment models)  *)
(* and tag synchronisation (Tag.addTagsToTopic), modelled at the           *)
(* granularity of single database statements (one step per await).         *)
(***************************************************************************)
EXTENDS Integers, Sequences, FiniteSets, TLC

\* ---------------------------------------------------------------- bounds
NumTopics == 2
NumComments == 1
NumUsers == 2
NumProcs == 1
MaxTagId == 3
MaxRefs == 3
MaxFailures == 1
NumLikers == 2
NumWriters == 2
MaxSyncRefs == 1
MaxViews == 2
MaxComments == 3
PoolSize == 2

TopicIds == 1..NumTopics
CommentIds == 1..NumComments
UserIds == 1..NumUsers
Procs == 1..NumProcs

\* an id that no row of the table has (callers may pass any number)
MissingTopicId == NumTopics + 1
MissingCommentId == NumComments + 1

VARIABLES
  topics,          \* table topics: id -> [status, likes_count, category, title, ...]
  comments,        \* table comments: id -> [topic_id, status, likes_count, created_at]
  topic_likes,     \* table topic_likes: <<topic_id, user_id>> -> number of rows
  comment_likes,   \* table comment_likes: <<comment_id, user_id>> -> number of rows
  tags,            \* table tags (committed): set of [id, name]
  tags_auto_increment, \* AUTO_INCREMENT counter of tags
  topic_tags,      \* table topic_tags (committed): set of <<topic_id, tag_id>>
  pc,              \* per request: position in the running operation
  call,            \* per request: arguments, locals and outcome of the operation
  conn,            \* per request: the pooled connection and its open transaction
  before,          \* per request: the committed store when the call started
  last,            \* the like call that returned last, if no other call returned since
  failures,        \* number of statements the store has failed so far
  errored          \* some like/unlike call has returned an error so far

vars == <<topics, comments, topic_likes, comment_likes, tags,
          tags_auto_increment, topic_tags, pc, call, conn, before, last,
          failures, errored>>

likeVars == <<topics, comments, topic_likes, comment_likes>>
tagVars == <<tags, tags_auto_increment, topic_tags, conn>>
histVars == <<before, last, errored>>

\* ------------------------------------------------------------ the store
Store ==
  [topics |-> topics, comments |-> comments,
   topic_likes |-> topic_likes, comment_likes |-> comment_likes,
   tags |-> tags, topic_tags |-> topic_tags,
   tags_auto_increment |-> tags_auto_increment]

RECURSIVE SumOver(_, _)
SumOver(f, S) ==
  IF S = {} THEN 0
  ELSE LET x == CHOOSE y \in S : TRUE IN f[x] + SumOver(f, S \ {x})

\* faulty variant: the count loses its WHERE clause and counts every row of the table
CountLikes_NoWhere(table, id) ==
  SumOver(table, DOMAIN table)

\* SELECT COUNT(*) FROM <likes table> WHERE <entity>_id = id
CountLikes(table, id) ==
  SumOver(table, {k \in DOMAIN table : k[1] = id})

\* faulty variant: the existence check never finds the row
SelectLike_NeverFound(table, id, userId) ==
  0

\* SELECT id FROM <likes table> WHERE <entity>_id = id AND user_id = userId
SelectLike(table, id, userId) ==
  table[<<id, userId>>]

\* faulty variant: the delete loses its user_id condition
DeleteLike_AllUsers(table, id, userId) ==
  [k \in DOMAIN table |-> IF k[1] = id THEN 0 ELSE table[k]]

\* faulty variant: the delete matches no row
DeleteLike_NoRow(table, id, userId) ==
  table

\* DELETE FROM <likes table> WHERE <entity>_id = id AND user_id = userId
DeleteLike(table, id, userId) ==
  [k \in DOMAIN table |-> IF k = <<id, userId>> THEN 0 ELSE table[k]]

\* faulty variant: the likes table has no UNIQUE KEY (<entity>_id, user_id)
InsertLikeCheck_NoUnique(table, entityIds, id, userId) ==
  IF id \notin entityIds THEN "fk" ELSE "ok"

\* INSERT INTO <likes table>: "fk" when the entity row is missing, "dup" when
\* UNIQUE KEY (<entity>_id, user_id) already has the pair, else "ok"
InsertLikeCheck(table, entityIds, id, userId) ==
  IF id \notin entityIds THEN "fk"
  ELSE IF table[<<id, userId>>] > 0 THEN "dup"
  ELSE "ok"

InsertLike(table, id, userId) ==
  [table EXCEPT ![<<id, userId>>] = @ + 1]

\* UPDATE <entity table> SET likes_count = likesCount WHERE id = id
UpdateLikesCount(rows, id, likesCount) ==
  [r \in DOMAIN rows |->
     IF r = id THEN [rows[r] EXCEPT !.likes_count = likesCount] ELSE rows[r]]

\* ------------------------------------------------------ tag references
\* a tag reference is a JavaScript number or a string (a sequence of characters)
Digits == <<"0", "1", "2", "3", "4", "5", "6", "7", "8", "9">>

NumRef(n) == [type |-> "number", num |-> n, str |-> <<>>]
StrRef(s) == [type |-> "string", num |-> 0, str |-> s]

\* /^\d+$/.test(s)
IsDigits(s) ==
  /\ Len(s) > 0
  /\ \A j \in 1..Len(s) : \E d \in 1..Len(Digits) : Digits[d] = s[j]

DigitValue(ch) == (CHOOSE d \in 1..Len(Digits) : Digits[d] = ch) - 1

\* Number(s) of a string of decimal digits
RECURSIVE DecimalValue(_)
DecimalValue(s) ==
  IF Len(s) = 0 THEN 0
  ELSE 10 * DecimalValue(SubSeq(s, 1, Len(s) - 1)) + DigitValue(s[Len(s)])

\* typeof tag === 'number' || /^\d+$/.test(tag)
IsNumericRef(tag) == tag.type = "number" \/ IsDigits(tag.str)

\* Number(tag)
ToNumber(tag) == IF tag.type = "number" THEN tag.num ELSE DecimalValue(tag.str)

\* ------------------------------------------------- JavaScript numbers
\* the values parseInt and the page arithmetic can produce
Num(n) == [kind |-> "int", n |-> n]
NaN == [kind |-> "nan", n |-> 0]
Infinity == [kind |-> "inf", n |-> 0]

\* const { page = 1, limit = 10, ... } = options
DefaultPage == 1
DefaultLimit == 10

\* an argument the caller left out
Undefined == [type |-> "undefined", num |-> 0, str |-> <<>>]

IsDigit(ch) == \E d \in 1..Len(Digits) : Digits[d] = ch

\* length of the longest prefix of s made of decimal digits
RECURSIVE DigitPrefix(_)
DigitPrefix(s) ==
  IF Len(s) = 0 \/ ~IsDigit(Head(s)) THEN 0 ELSE 1 + DigitPrefix(Tail(s))

\* parseInt(v): an optional sign, then the longest run of digits; NaN if none
ParseInt(v) ==
  IF v.type = "number" THEN Num(v.num)
  ELSE IF v.type = "undefined" THEN NaN
  ELSE LET signed == Len(v.str) > 0 /\ v.str[1] \in {"-", "+"}
           body == IF signed THEN Tail(v.str) ELSE v.str
           k == DigitPrefix(body)
           n == DecimalValue(SubSeq(body, 1, k))
       IN IF k = 0 THEN NaN
          ELSE IF signed /\ v.str[1] = "-" THEN Num(0 - n) ELSE Num(n)

\* (pageInt - 1) * limitInt
Offset(pageInt, limitInt) ==
  IF pageInt.kind = "int" /\ limitInt.kind = "int"
  THEN Num((pageInt.n - 1) * limitInt.n) ELSE NaN

\* faulty variant: the quotient is rounded down
MathCeil_Floor(totalCount, limitInt) ==
  IF limitInt.kind # "int" \/ limitInt.n <= 0 THEN NaN
  ELSE Num(totalCount \div limitInt.n)

\* Math.ceil(totalCount / limitInt) for a count totalCount >= 0
MathCeil(totalCount, limitInt) ==
  IF limitInt.kind # "int" THEN NaN
  ELSE IF limitInt.n = 0 THEN (IF totalCount = 0 THEN NaN ELSE Infinity)
  ELSE IF limitInt.n > 0 THEN Num((totalCount + limitInt.n - 1) \div limitInt.n)
  ELSE Num(0 - (totalCount \div (0 - limitInt.n)))

\* LIMIT ${limitInt} OFFSET ${offset} is accepted only with two unsigned
\* integer literals (NaN and negative numbers are syntax errors; -0 prints 0)
LimitClauseParses(limitInt, offset) ==
  /\ limitInt.kind = "int" /\ limitInt.n >= 0
  /\ offset.kind = "int" /\ offset.n >= 0

\* the options of a listing call; falsy values stand for an absent filter
NoOptions ==
  [page |-> Undefined, limit |-> Undefined, category |-> "", tag |-> StrRef(<<>>),
   search |-> <<>>, sort |-> "undefined", userId |-> 0, topicId |-> NumRef(0)]

\* ---------------------------------------------- tags / topic_tags tables
\* the rows a writing statement of the transaction on connection c works on:
\* the committed rows and the transaction's own changes
CurrentTags(c) == tags \cup c.newTags
VisibleTopicTags(c) == (topic_tags \ c.deleted) \cup c.inserted

\* what a SELECT of the transaction sees (InnoDB consistent read): the
\* committed rows as of the transaction's first SELECT, and its own changes
VisibleTags(c) == (IF c.read THEN c.snapshot ELSE tags) \cup c.newTags

\* the first SELECT of a transaction fixes its read view
ReadView(c) == IF c.read THEN c ELSE [c EXCEPT !.read = TRUE, !.snapshot = tags]

\* faulty variant: the existence check of a numeric reference always finds a row
SelectTagById_AlwaysFound(rows, tagId) == {[id |-> tagId, name |-> <<>>]}

\* SELECT id FROM tags WHERE id = tagId
SelectTagById(rows, tagId) == {t \in rows : t.id = tagId}

\* SELECT id FROM tags WHERE name = name
SelectTagByName(rows, name) == {t \in rows : t.name = name}

\* faulty variant: the tags table has no UNIQUE (name)
InsertTagCheck_NoUnique(rows, name) == "ok"

\* INSERT INTO tags (name): "dup" when UNIQUE (name) already has the name
InsertTagCheck(rows, name) ==
  IF \E t \in rows : t.name = name THEN "dup" ELSE "ok"

\* faulty variant: the delete removes no association
DeleteTopicTags_NoRow(rows, topicId) == {}

\* DELETE FROM topic_tags WHERE topic_id = topicId: the rows it removes
DeleteTopicTags(rows, topicId) == {r \in rows : r[1] = topicId}

\* INSERT INTO topic_tags (topic_id, tag_id): "fk" when the topic or the tag
\* row is missing, "dup" when PRIMARY KEY (topic_id, tag_id) has the pair
InsertTopicTagCheck(rows, tagRows, topicId, tagId) ==
  IF topicId \notin DOMAIN topics \/ ~\E t \in tagRows : t.id = tagId THEN "fk"
  ELSE IF <<topicId, tagId>> \in rows THEN "dup"
  ELSE "ok"

\* SELECT t.* FROM tags t INNER JOIN topic_tags tt ON t.id = tt.tag_id
\* WHERE tt.topic_id = topicId   (the rows, without their order)
SelectTopicTags(tagRows, rows, topicId) ==
  {t \in tagRows : <<topicId, t.id>> \in rows}

\* ------------------------------------------------ topics / comments rows
\* a row of topics as INSERT leaves it (status and counters by DEFAULT)
NewTopic(category, title, is_hot, is_official, created_at) ==
  [status |-> "active", views |-> 0, likes_count |-> 0, comments_count |-> 0,
   category |-> category,
   title |-> title, content |-> <<"z">>, is_hot |-> is_hot,
   is_official |-> is_official, created_at |-> created_at]

\* a row of comments as INSERT leaves it
NewComment(topicId, created_at) ==
  [topic_id |-> topicId, status |-> "active", likes_count |-> 0,
   created_at |-> created_at]

\* (SELECT COUNT(*) FROM comments WHERE topic_id = t.id AND status = 'active')
ActiveComments(rows, topicId) ==
  Cardinality({c \in DOMAIN rows :
                 rows[c].topic_id = topicId /\ rows[c].status = "active"})

\* ------------------------------------------------------- request records
\* topicData / updateData: the fields that are given, and their values
NoData ==
  [hasTitle |-> FALSE, title |-> <<>>, hasContent |-> FALSE, content |-> <<>>,
   hasCategory |-> FALSE, category |-> "", authorId |-> 0, hasTags |-> FALSE]

NoCall ==
  [op |-> "none", id |-> 0, userId |-> 0, tags |-> <<>>, i |-> 0,
   tagId |-> 0, addedTags |-> <<>>, likesCount |-> 0,
   repeat |-> FALSE, firstError |-> "none",
   status |-> "none", error |-> "none", failedAt |-> "none",
   ret |-> -1, retTags |-> {},
   options |-> NoOptions, pageInt |-> NaN, limitInt |-> NaN, offset |-> NaN,
   items |-> <<>>, totalCount |-> 0, pageCount |-> NaN, found |-> FALSE,
   rows |-> {}, data |-> NoData]

NewCall(op, id, userId, refs) ==
  [NoCall EXCEPT !.op = op, !.id = id, !.userId = userId, !.tags = refs,
                 !.status = "running"]

NoConn ==
  [held |-> 0, open |-> FALSE, deleted |-> {}, inserted |-> {}, newTags |-> {},
   topicWrites |-> {}, ranges |-> {}, read |-> FALSE, snapshot |-> {}]

NoLast == [op |-> "none", id |-> 0, userId |-> 0, status |-> "none",
           rowsBefore |-> 0, likedBefore |-> FALSE]

Idle == \A q \in Procs : pc[q] = "idle"

\* the next statement of the operation runs; locals c
StepWith(p, label, c) ==
  /\ pc' = [pc EXCEPT ![p] = label]
  /\ call' = [call EXCEPT ![p] = c]
  /\ failures' = failures

Step(p, label) == StepWith(p, label, call[p])

\* the statement is refused by a constraint of the schema: the promise rejects
RaiseTo(p, label, error, at) ==
  StepWith(p, label, [call[p] EXCEPT !.status = "error", !.error = error, !.failedAt = at])

\* the store fails the statement (timeout, lost connection, pool exhausted).
\* A statement raced against the QUERY_TIMEOUT timer is not cancelled when the
\* timer wins: the action that fails it leaves the table as it was or as the
\* statement makes it
StoreFailsTo(p, label, at) ==
  /\ failures < MaxFailures
  /\ pc' = [pc EXCEPT ![p] = label]
  /\ call' = [call EXCEPT ![p].status = "error", ![p].error = "store",
                          ![p].failedAt = at]
  /\ failures' = failures + 1

Raise(p, error, at) == RaiseTo(p, "done", error, at)
StoreFails(p, at) == StoreFailsTo(p, "done", at)

Begin(p, op, id, userId, refs, label) ==
  /\ pc[p] = "idle"
  /\ pc' = [pc EXCEPT ![p] = label]
  /\ call' = [call EXCEPT ![p] = NewCall(op, id, userId, refs)]
  /\ before' = [before EXCEPT ![p] = Store]
  /\ UNCHANGED <<last, errored, failures>>

\* ------------------------------------------------------------ Topic.like
Topic_like(p, topicId, userId) ==
  /\ Begin(p, "Topic.like", topicId, userId, <<>>, "Topic.like.select")
  /\ UNCHANGED <<likeVars, tagVars>>

Topic_like_select(p) ==
  /\ pc[p] = "Topic.like.select"
  /\ \/ StoreFails(p, "select")
     \/ IF SelectLike(topic_likes, call[p].id, call[p].userId) > 0
        THEN Step(p, "Topic.getLikesCount.select")
        ELSE Step(p, "Topic.like.insert")
  /\ UNCHANGED <<likeVars, tagVars, histVars>>

Topic_like_insert(p) ==
  /\ pc[p] = "Topic.like.insert"
  /\ LET chk == InsertLikeCheck(topic_likes, DOMAIN topics, call[p].id, call[p].userId) IN
     \/ /\ StoreFails(p, "insert")
        /\ \/ UNCHANGED topic_likes
           \/ /\ chk = "ok"
              /\ topic_likes' = InsertLike(topic_likes, call[p].id, call[p].userId)
     \/ /\ chk # "ok"
        /\ Raise(p, chk, "insert")
        /\ UNCHANGED topic_likes
     \/ /\ chk = "ok"
        /\ topic_likes' = InsertLike(topic_likes, call[p].id, call[p].userId)
        /\ Step(p, "Topic.getLikesCount.select")
  /\ UNCHANGED <<topics, comments, comment_likes, tagVars, histVars>>

\* ------------------------------------------------------------ Topic.unlike
Topic_unlike(p, topicId, userId) ==
  /\ Begin(p, "Topic.unlike", topicId, userId, <<>>, "Topic.unlike.delete")
  /\ UNCHANGED <<likeVars, tagVars>>

Topic_unlike_delete(p) ==
  /\ pc[p] = "Topic.unlike.delete"
  /\ \/ /\ StoreFails(p, "delete")
        /\ \/ UNCHANGED topic_likes
           \/ topic_likes' = DeleteLike(topic_likes, call[p].id, call[p].userId)
     \/ /\ topic_likes' = DeleteLike(topic_likes, call[p].id, call[p].userId)
        /\ Step(p, "Topic.getLikesCount.select")
  /\ UNCHANGED <<topics, comments, comment_likes, tagVars, histVars>>

\* ------------------------------------------------------------ Topic.getLikesCount
Topic_getLikesCount_select(p) ==
  /\ pc[p] = "Topic.getLikesCount.select"
  /\ \/ StoreFails(p, "count")
     \/ StepWith(p, "Topic.getLikesCount.update",
                 [call[p] EXCEPT !.likesCount = CountLikes(topic_likes, call[p].id)])
  /\ UNCHANGED <<likeVars, tagVars, histVars>>

Topic_getLikesCount_update(p) ==
  /\ pc[p] = "Topic.getLikesCount.update"
  /\ \/ /\ StoreFails(p, "update")
        /\ \/ UNCHANGED topics
           \/ topics' = UpdateLikesCount(topics, call[p].id, call[p].likesCount)
     \/ /\ topics' = UpdateLikesCount(topics, call[p].id, call[p].likesCount)
        /\ StepWith(p, "done", [call[p] EXCEPT !.status = "ok", !.ret = call[p].likesCount])
  /\ UNCHANGED <<comments, topic_likes, comment_likes, tagVars, histVars>>

\* ------------------------------------------------------------ Comment.like
Comment_like(p, commentId, userId) ==
  /\ Begin(p, "Comment.like", commentId, userId, <<>>, "Comment.like.select")
  /\ UNCHANGED <<likeVars, tagVars>>

Comment_like_select(p) ==
  /\ pc[p] = "Comment.like.select"
  /\ \/ StoreFails(p, "select")
     \/ IF SelectLike(comment_likes, call[p].id, call[p].userId) > 0
        THEN Step(p, "Comment.getLikesCount.select")
        ELSE Step(p, "Comment.like.insert")
  /\ UNCHANGED <<likeVars, tagVars, histVars>>

Comment_like_insert(p) ==
  /\ pc[p] = "Comment.like.insert"
  /\ LET chk == InsertLikeCheck(comment_likes, DOMAIN comments, call[p].id, call[p].userId) IN
     \/ /\ StoreFails(p, "insert")
        /\ \/ UNCHANGED comment_likes
           \/ /\ chk = "ok"
              /\ comment_likes' = InsertLike(comment_likes, call[p].id, call[p].userId)
     \/ /\ chk # "ok"
        /\ Raise(p, chk, "insert")
        /\ UNCHANGED comment_likes
     \/ /\ chk = "ok"
        /\ comment_likes' = InsertLike(comment_likes, call[p].id, call[p].userId)
        /\ Step(p, "Comment.getLikesCount.select")
  /\ UNCHANGED <<topics, comments, topic_likes, tagVars, histVars>>

\* ------------------------------------------------------------ Comment.unlike
Comment_unlike(p, commentId, userId) ==
  /\ Begin(p, "Comment.unlike", commentId, userId, <<>>, "Comment.unlike.delete")
  /\ UNCHANGED <<likeVars, tagVars>>

Comment_unlike_delete(p) ==
  /\ pc[p] = "Comment.unlike.delete"
  /\ \/ /\ StoreFails(p, "delete")
        /\ \/ UNCHANGED comment_likes
           \/ comment_likes' = DeleteLike(comment_likes, call[p].id, call[p].userId)
     \/ /\ comment_likes' = DeleteLike(comment_likes, call[p].id, call[p].userId)
        /\ Step(p, "Comment.getLikesCount.select")
  /\ UNCHANGED <<topics, comments, topic_likes, tagVars, histVars>>

\* ------------------------------------------------------------ Comment.getLikesCount
Comment_getLikesCount_select(p) ==
  /\ pc[p] = "Comment.getLikesCount.select"
  /\ \/ StoreFails(p, "count")
     \/ StepWith(p, "Comment.getLikesCount.update",
                 [call[p] EXCEPT !.likesCount = CountLikes(comment_likes, call[p].id)])
  /\ UNCHANGED <<likeVars, tagVars, histVars>>

Comment_getLikesCount_update(p) ==
  /\ pc[p] = "Comment.getLikesCount.update"
  /\ \/ /\ StoreFails(p, "update")
        /\ \/ UNCHANGED comments
           \/ comments' = UpdateLikesCount(comments, call[p].id, call[p].likesCount)
     \/ /\ comments' = UpdateLikesCount(comments, call[p].id, call[p].likesCount)
        /\ StepWith(p, "done", [call[p] EXCEPT !.status = "ok", !.ret = call[p].likesCount])
  /\ UNCHANGED <<topics, topic_likes, comment_likes, tagVars, histVars>>

\* ----------------------------------------------------- Tag.addTagsToTopic
NameRefs(refs) == Cardinality({j \in 1..Len(refs) : ~IsNumericRef(refs[j])})

\* the loop `for (const tag of tags)` moves to element j, or ends
ForLabel(p, j) ==
  IF j <= Len(call[p].tags) THEN "Tag.addTagsToTopic.select"
  ELSE "Tag.addTagsToTopic.commit"

\* ---- InnoDB locks (REPEATABLE READ) held by the open transactions
\* the other connections with a transaction in progress
OtherOpen(p) == {q \in DOMAIN conn \ {p} : conn[q].open}

\* the topics rows a transaction has inserted or updated and not committed
TopicLocks(c) == {w.id : w \in c.topicWrites}

\* DELETE ... WHERE topic_id = topicId waits for the transactions that hold
\* row locks on associations of the topic (rows they deleted or inserted)
DeleteBlockers(p, topicId) ==
  {q \in OtherOpen(p) :
     DeleteTopicTags(conn[q].deleted \cup conn[q].inserted, topicId) # {}}

\* faulty variant: a DELETE locks no key range, inserts never wait
InsertTopicTagBlockers_NoRangeLock(p, topicId) == {}

\* INSERT INTO topic_tags (topicId, ...) waits for the transactions whose
\* DELETE locked the key range of the topic (next-key / gap locks), and, for
\* the check of FOREIGN KEY (topic_id), for those that hold the topics row
InsertTopicTagBlockers(p, topicId) ==
  {q \in OtherOpen(p) : topicId \in conn[q].ranges \cup TopicLocks(conn[q])}

\* INSERT INTO tags (name) waits for the transactions that hold an
\* uncommitted row with the same UNIQUE name
InsertTagBlockers(p, name) ==
  {q \in OtherOpen(p) : \E t \in conn[q].newTags : t.name = name}

\* the transactions the statement that p is at waits for; an insert into the
\* key range may also queue behind a DELETE that waits for its range
WaitsFor(p) ==
  CASE pc[p] = "Tag.addTagsToTopic.delete" -> DeleteBlockers(p, call[p].id)
    [] pc[p] = "Tag.addTagsToTopic.insertTag" ->
         InsertTagBlockers(p, call[p].tags[call[p].i].str)
    [] pc[p] = "Tag.addTagsToTopic.insertTopicTag" ->
         InsertTopicTagBlockers(p, call[p].id) \cup
         {q \in OtherOpen(p) : /\ pc[q] = "Tag.addTagsToTopic.delete"
                               /\ call[q].id = call[p].id
                               /\ p \in DeleteBlockers(q, call[q].id)}
    [] OTHER -> {}

RECURSIVE WaitClosure(_, _)
WaitClosure(S, n) ==
  IF n = 0 THEN S
  ELSE WaitClosure(S \cup UNION {WaitsFor(q) : q \in S}, n - 1)

\* the calls that run inside another call, each as a request of its own
Nested(p) == p + NumProcs + NumWriters + PoolSize

\* q has called the operation that p runs and awaits its result
Awaits(q, p) ==
  /\ p = Nested(q)
  /\ pc[q] \in {"Topic.create.addTagsToTopic", "Topic.update.addTagsToTopic"}

\* the statement of p waits for a lock of a transaction whose owner awaits
\* p: nothing releases the lock, the store ends the wait after
\* innodb_lock_wait_timeout with an error
LockWaitTimeout(p) == \E q \in WaitsFor(p) : Awaits(q, p)

\* p is on a cycle of waits: InnoDB may choose its transaction as the victim
Deadlocked(p) == p \in WaitClosure(WaitsFor(p), Cardinality(DOMAIN pc))

Tag_addTagsToTopic(p, topicId, refs) ==
  /\ tags_auto_increment + NameRefs(refs) <= MaxTagId + 1
  /\ Begin(p, "Tag.addTagsToTopic", topicId, 0, refs, "Tag.addTagsToTopic.getConnection")
  /\ UNCHANGED <<likeVars, tagVars>>

\* const connection = await pool.getConnection()   (outside the inner try)
\* the connections of the pool that are not held by a request
FreeConnections ==
  PoolSize - SumOver([q \in DOMAIN conn |-> conn[q].held], DOMAIN conn)

\* await pool.getConnection(): answered when the pool has a free connection
Tag_addTagsToTopic_getConnection(p) ==
  /\ pc[p] = "Tag.addTagsToTopic.getConnection"
  /\ \/ /\ StoreFails(p, "getConnection")
        /\ UNCHANGED conn
     \/ /\ FreeConnections > 0
        /\ conn' = [conn EXCEPT ![p].held = @ + 1]
        /\ Step(p, "Tag.addTagsToTopic.beginTransaction")
  /\ UNCHANGED <<likeVars, tags, tags_auto_increment, topic_tags, histVars>>

Tag_addTagsToTopic_beginTransaction(p) ==
  /\ pc[p] = "Tag.addTagsToTopic.beginTransaction"
  /\ \/ /\ StoreFailsTo(p, "Tag.addTagsToTopic.rollback", "beginTransaction")
        /\ UNCHANGED conn
     \/ /\ conn' = [conn EXCEPT ![p].open = TRUE]
        /\ Step(p, "Tag.addTagsToTopic.delete")
  /\ UNCHANGED <<likeVars, tags, tags_auto_increment, topic_tags, histVars>>

\* faulty variant: the DELETE takes effect at once, outside the transaction
Tag_addTagsToTopic_delete_Autocommit(p) ==
  /\ pc[p] = "Tag.addTagsToTopic.delete"
  /\ \/ /\ StoreFailsTo(p, "Tag.addTagsToTopic.rollback", "delete")
        /\ UNCHANGED <<conn, topic_tags>>
     \/ /\ topic_tags' = topic_tags \ DeleteTopicTags(topic_tags, call[p].id)
        /\ conn' = [conn EXCEPT ![p].ranges = @ \cup {call[p].id}]
        /\ StepWith(p, ForLabel(p, 1), [call[p] EXCEPT !.i = 1])
  /\ UNCHANGED <<likeVars, tags, tags_auto_increment, histVars>>

Tag_addTagsToTopic_delete(p) ==
  /\ pc[p] = "Tag.addTagsToTopic.delete"
  /\ \/ /\ StoreFailsTo(p, "Tag.addTagsToTopic.rollback", "delete")
        /\ UNCHANGED conn
     \/ /\ Deadlocked(p)
        /\ RaiseTo(p, "Tag.addTagsToTopic.rollback", "deadlock", "delete")
        /\ UNCHANGED conn
     \/ /\ DeleteBlockers(p, call[p].id) = {}
        /\ conn' = [conn EXCEPT ![p].deleted =
                      @ \cup DeleteTopicTags(VisibleTopicTags(conn[p]), call[p].id),
                                 ![p].inserted =
                      @ \ DeleteTopicTags(VisibleTopicTags(conn[p]), call[p].id),
                                 ![p].ranges = @ \cup {call[p].id}]
        /\ StepWith(p, ForLabel(p, 1), [call[p] EXCEPT !.i = 1])
  /\ UNCHANGED <<likeVars, tags, tags_auto_increment, topic_tags, histVars>>

\* faulty variant: a name that is found is skipped like an unknown numeric id
Tag_addTagsToTopic_select_SkipFound(p) ==
  /\ pc[p] = "Tag.addTagsToTopic.select"
  /\ LET tag == call[p].tags[call[p].i]
         byId == SelectTagById(VisibleTags(conn[p]), ToNumber(tag))
         byName == SelectTagByName(VisibleTags(conn[p]), tag.str)
     IN
     \/ /\ StoreFailsTo(p, "Tag.addTagsToTopic.rollback", "select")
        /\ UNCHANGED conn
     \/ /\ IsNumericRef(tag)
        /\ IF byId = {}
           THEN StepWith(p, ForLabel(p, call[p].i + 1),
                         [call[p] EXCEPT !.i = @ + 1])
           ELSE StepWith(p, "Tag.addTagsToTopic.insertTopicTag",
                         [call[p] EXCEPT !.tagId = ToNumber(tag)])
        /\ conn' = [conn EXCEPT ![p] = ReadView(conn[p])]
     \/ /\ ~IsNumericRef(tag)
        /\ IF byName # {}
           THEN StepWith(p, ForLabel(p, call[p].i + 1),
                         [call[p] EXCEPT !.i = @ + 1])
           ELSE Step(p, "Tag.addTagsToTopic.insertTag")
        /\ conn' = [conn EXCEPT ![p] = ReadView(conn[p])]
  /\ UNCHANGED <<likeVars, tags, tags_auto_increment, topic_tags, histVars>>

\* the lookup of the reference: by id when numeric, by name otherwise
Tag_addTagsToTopic_select(p) ==
  /\ pc[p] = "Tag.addTagsToTopic.select"
  /\ LET tag == call[p].tags[call[p].i]
         byId == SelectTagById(VisibleTags(conn[p]), ToNumber(tag))
         byName == SelectTagByName(VisibleTags(conn[p]), tag.str)
     IN
     \/ /\ StoreFailsTo(p, "Tag.addTagsToTopic.rollback", "select")
        /\ UNCHANGED conn
     \/ /\ IsNumericRef(tag)
        /\ IF byId = {}
           THEN StepWith(p, ForLabel(p, call[p].i + 1),
                         [call[p] EXCEPT !.i = @ + 1])
           ELSE StepWith(p, "Tag.addTagsToTopic.insertTopicTag",
                         [call[p] EXCEPT !.tagId = ToNumber(tag)])
        /\ conn' = [conn EXCEPT ![p] = ReadView(conn[p])]
     \/ /\ ~IsNumericRef(tag)
        /\ IF byName # {}
           THEN StepWith(p, "Tag.addTagsToTopic.insertTopicTag",
                         [call[p] EXCEPT !.tagId = (CHOOSE t \in byName : TRUE).id])
           ELSE Step(p, "Tag.addTagsToTopic.insertTag")
        /\ conn' = [conn EXCEPT ![p] = ReadView(conn[p])]
  /\ UNCHANGED <<likeVars, tags, tags_auto_increment, topic_tags, histVars>>

\* INSERT INTO tags (name, created_at); tagId = result.insertId
Tag_addTagsToTopic_insertTag(p) ==
  /\ pc[p] = "Tag.addTagsToTopic.insertTag"
  /\ LET name == call[p].tags[call[p].i].str
         chk == InsertTagCheck(CurrentTags(conn[p]), name)
         free == InsertTagBlockers(p, name) = {}
     IN
     \/ /\ StoreFailsTo(p, "Tag.addTagsToTopic.rollback", "insertTag")
        /\ UNCHANGED <<conn, tags_auto_increment>>
     \/ /\ Deadlocked(p)
        /\ RaiseTo(p, "Tag.addTagsToTopic.rollback", "deadlock", "insertTag")
        /\ UNCHANGED <<conn, tags_auto_increment>>
     \/ /\ free /\ chk # "ok"
        /\ RaiseTo(p, "Tag.addTagsToTopic.rollback", chk, "insertTag")
        /\ UNCHANGED <<conn, tags_auto_increment>>
     \/ /\ free /\ chk = "ok"
        /\ conn' = [conn EXCEPT ![p].newTags =
                      @ \cup {[id |-> tags_auto_increment, name |-> name]}]
        /\ tags_auto_increment' = tags_auto_increment + 1
        /\ StepWith(p, "Tag.addTagsToTopic.insertTopicTag",
                    [call[p] EXCEPT !.tagId = tags_auto_increment])
  /\ UNCHANGED <<likeVars, tags, topic_tags, histVars>>

\* INSERT INTO topic_tags (topic_id, tag_id); addedTags.push(tagId)
Tag_addTagsToTopic_insertTopicTag(p) ==
  /\ pc[p] = "Tag.addTagsToTopic.insertTopicTag"
  /\ LET chk == InsertTopicTagCheck(VisibleTopicTags(conn[p]), CurrentTags(conn[p]),
                                    call[p].id, call[p].tagId)
         free == InsertTopicTagBlockers(p, call[p].id) = {}
     IN
     \/ /\ StoreFailsTo(p, "Tag.addTagsToTopic.rollback", "insertTopicTag")
        /\ UNCHANGED conn
     \/ /\ Deadlocked(p)
        /\ RaiseTo(p, "Tag.addTagsToTopic.rollback", "deadlock", "insertTopicTag")
        /\ UNCHANGED conn
     \/ /\ LockWaitTimeout(p)
        /\ RaiseTo(p, "Tag.addTagsToTopic.rollback", "lock wait timeout", "insertTopicTag")
        /\ UNCHANGED conn
     \/ /\ free /\ chk # "ok"
        /\ RaiseTo(p, "Tag.addTagsToTopic.rollback", chk, "insertTopicTag")
        /\ UNCHANGED conn
     \/ /\ free /\ chk = "ok"
        /\ conn' = [conn EXCEPT ![p].inserted = @ \cup {<<call[p].id, call[p].tagId>>}]
        /\ StepWith(p, ForLabel(p, call[p].i + 1),
                    [call[p] EXCEPT !.i = @ + 1,
                                    !.addedTags = Append(@, call[p].tagId)])
  /\ UNCHANGED <<likeVars, tags, tags_auto_increment, topic_tags, histVars>>

\* the changes of the transaction become the committed rows
CommitTopicTags(c) == VisibleTopicTags(c)
CommitTags(c) == CurrentTags(c)

\* the transaction of the connection ends; nothing is pending
EndTransaction(c) ==
  [c EXCEPT !.open = FALSE, !.deleted = {}, !.inserted = {}, !.newTags = {},
            !.topicWrites = {}, !.ranges = {}, !.read = FALSE, !.snapshot = {}]

\* await connection.commit()
Tag_addTagsToTopic_commit(p) ==
  /\ pc[p] = "Tag.addTagsToTopic.commit"
  /\ \/ /\ StoreFailsTo(p, "Tag.addTagsToTopic.rollback", "commit")
        /\ UNCHANGED <<conn, tags, topic_tags>>
     \/ /\ topic_tags' = CommitTopicTags(conn[p])
        /\ tags' = CommitTags(conn[p])
        /\ conn' = [conn EXCEPT ![p] = EndTransaction(conn[p])]
        /\ Step(p, "Tag.addTagsToTopic.getTopicTags")
  /\ UNCHANGED <<likeVars, tags_auto_increment, histVars>>

\* return this.getTopicTags(topicId); finally { connection.release() }
Tag_addTagsToTopic_getTopicTags(p) ==
  /\ pc[p] = "Tag.addTagsToTopic.getTopicTags"
  /\ conn' = [conn EXCEPT ![p].held = @ - 1]
  /\ \/ StoreFails(p, "getTopicTags")
     \/ StepWith(p, "done",
                 [call[p] EXCEPT !.status = "ok",
                                 !.retTags = SelectTopicTags(tags, topic_tags, call[p].id)])
  /\ UNCHANGED <<likeVars, tags, tags_auto_increment, topic_tags, histVars>>

\* faulty variant: the rollback is lost, the changes made so far stay
RollbackTopicTags_Keep(c) == VisibleTopicTags(c)

\* what the uncommitted changes become on rollback: the committed rows stay
RollbackTopicTags(c) == topic_tags
RollbackTags(c) == tags

\* catch (error) { await connection.rollback(); throw error }
\* finally { connection.release() }
Tag_addTagsToTopic_rollback(p) ==
  /\ pc[p] = "Tag.addTagsToTopic.rollback"
  /\ topic_tags' = RollbackTopicTags(conn[p])
  /\ tags' = RollbackTags(conn[p])
  /\ conn' = [conn EXCEPT ![p] = [EndTransaction(conn[p]) EXCEPT !.held = @ - 1]]
  /\ \/ Step(p, "done")
     \/ StoreFails(p, "rollback")
  /\ UNCHANGED <<likeVars, tags_auto_increment, histVars>>

\* the caller issues the same call again as soon as it has returned
Tag_addTagsToTopic_again(p) ==
  /\ pc[p] = "done"
  /\ call[p].op = "Tag.addTagsToTopic"
  /\ ~call[p].repeat
  /\ tags_auto_increment + NameRefs(call[p].tags) <= MaxTagId + 1
  /\ pc' = [pc EXCEPT ![p] = "Tag.addTagsToTopic.getConnection"]
  /\ call' = [call EXCEPT ![p] =
                [NewCall("Tag.addTagsToTopic", call[p].id, 0, call[p].tags)
                   EXCEPT !.repeat = TRUE, !.firstError = call[p].error]]
  /\ before' = [before EXCEPT ![p] = Store]
  /\ UNCHANGED <<likeVars, tagVars, last, errored, failures>>

\* -------------------------------------------------------- Tag.getTopicTags
Tag_getTopicTags(p, topicId) ==
  /\ Begin(p, "Tag.getTopicTags", topicId, 0, <<>>, "Tag.getTopicTags.select")
  /\ UNCHANGED <<likeVars, tagVars>>

\* one SELECT on the pool (autocommit): a consistent read of committed rows
Tag_getTopicTags_select(p) ==
  /\ pc[p] = "Tag.getTopicTags.select"
  /\ \/ StoreFails(p, "select")
     \/ StepWith(p, "done",
                 [call[p] EXCEPT !.status = "ok",
                                 !.retTags = SelectTopicTags(tags, topic_tags, call[p].id)])
  /\ UNCHANGED <<likeVars, tagVars, histVars>>

\* ------------------------------------------- Topic.create / Topic.update
\* const connection = await pool.getConnection()   (outside the inner try)
TxGetConnection(p, here, next) ==
  /\ pc[p] = here
  /\ \/ /\ StoreFails(p, "getConnection")
        /\ UNCHANGED conn
     \/ /\ FreeConnections > 0
        /\ conn' = [conn EXCEPT ![p].held = @ + 1]
        /\ Step(p, next)
  /\ UNCHANGED <<likeVars, tags, tags_auto_increment, topic_tags, histVars>>

\* await connection.beginTransaction()
TxBeginTransaction(p, here, next, rollback) ==
  /\ pc[p] = here
  /\ \/ /\ StoreFailsTo(p, rollback, "beginTransaction")
        /\ UNCHANGED conn
     \/ /\ conn' = [conn EXCEPT ![p].open = TRUE]
        /\ Step(p, next)
  /\ UNCHANGED <<likeVars, tags, tags_auto_increment, topic_tags, histVars>>

\* await Tag.addTagsToTopic(topicId, tags, connection): addTagsToTopic takes
\* (topicId, tags) only, so the call starts as any other call of it
CallAddTagsToTopic(p, next, c, topicId, refs) ==
  /\ pc' = [pc EXCEPT ![p] = next, ![Nested(p)] = "Tag.addTagsToTopic.getConnection"]
  /\ call' = [call EXCEPT ![p] = c,
                          ![Nested(p)] = NewCall("Tag.addTagsToTopic", topicId, 0, refs)]
  /\ failures' = failures

\* the awaited call has settled: its rejection is thrown on into the catch
TxAddTagsToTopic(p, here, next, rollback) ==
  /\ pc[p] = here
  /\ pc[Nested(p)] = "done"
  /\ LET r == call[Nested(p)] IN
     /\ pc' = [pc EXCEPT ![p] = IF r.status = "ok" THEN next ELSE rollback,
                         ![Nested(p)] = "idle"]
     /\ call' = [call EXCEPT
                   ![p] = IF r.status = "ok" THEN [@ EXCEPT !.retTags = r.retTags]
                          ELSE [@ EXCEPT !.status = "error", !.error = r.error,
                                         !.failedAt = "addTagsToTopic"],
                   ![Nested(p)] = NoCall]
  /\ UNCHANGED <<likeVars, tagVars, histVars, failures>>

\* the topics rows once the transaction's writes are committed
CommitTopics(c) ==
  [t \in DOMAIN topics \cup TopicLocks(c) |->
     IF t \in TopicLocks(c)
     THEN (CHOOSE w \in c.topicWrites : w.id = t).row
     ELSE topics[t]]

\* await connection.commit(); return this.findById(id);
\* finally { connection.release() }
TxCommit(p, here, rollback) ==
  /\ pc[p] = here
  /\ \/ /\ StoreFailsTo(p, rollback, "commit")
        /\ UNCHANGED <<conn, topics>>
     \/ /\ topics' = CommitTopics(conn[p])
        /\ conn' = [conn EXCEPT ![p] = [EndTransaction(conn[p]) EXCEPT !.held = @ - 1]]
        /\ StepWith(p, "Topic.findById.select", [call[p] EXCEPT !.userId = 0])
  /\ UNCHANGED <<comments, topic_likes, comment_likes, tags, tags_auto_increment,
                 topic_tags, histVars>>

\* catch (error) { await connection.rollback(); throw error }
\* finally { connection.release() }
\* faulty variant: release() follows rollback() in the catch block instead of
\* standing in a finally block, so a failing rollback skips it
TxRollback_ReleaseInCatch(p, here) ==
  /\ pc[p] = here
  /\ \/ /\ conn' = [conn EXCEPT ![p] = [EndTransaction(conn[p]) EXCEPT !.held = @ - 1]]
        /\ Step(p, "done")
     \/ /\ conn' = [conn EXCEPT ![p] = EndTransaction(conn[p])]
        /\ StoreFails(p, "rollback")
  /\ UNCHANGED <<likeVars, tags, tags_auto_increment, topic_tags, histVars>>

TxRollback(p, here) ==
  /\ pc[p] = here
  /\ conn' = [conn EXCEPT ![p] = [EndTransaction(conn[p]) EXCEPT !.held = @ - 1]]
  /\ \/ Step(p, "done")
     \/ StoreFails(p, "rollback")
  /\ UNCHANGED <<likeVars, tags, tags_auto_increment, topic_tags, histVars>>

\* result.insertId of INSERT INTO topics: the next id of the table
InsertId ==
  1 + Cardinality(DOMAIN topics \cup UNION {TopicLocks(conn[q]) : q \in DOMAIN conn})

\* ------------------------------------------------------------ Topic.create
Topic_create(p, d, refs) ==
  /\ InsertId <= NumTopics + 1
  /\ tags_auto_increment + NameRefs(refs) <= MaxTagId + 1
  /\ pc[p] = "idle"
  /\ pc' = [pc EXCEPT ![p] = "Topic.create.getConnection"]
  /\ call' = [call EXCEPT ![p] =
                [NewCall("Topic.create", 0, 0, refs) EXCEPT !.data = d]]
  /\ before' = [before EXCEPT ![p] = Store]
  /\ UNCHANGED <<likeVars, tagVars, last, errored, failures>>

Topic_create_getConnection(p) ==
  TxGetConnection(p, "Topic.create.getConnection", "Topic.create.beginTransaction")

Topic_create_beginTransaction(p) ==
  TxBeginTransaction(p, "Topic.create.beginTransaction", "Topic.create.insert",
                     "Topic.create.rollback")

\* INSERT INTO topics (title, content, category, author_id, created_at);
\* "fk" when FOREIGN KEY (author_id) finds no user
Topic_create_insert(p) ==
  /\ pc[p] = "Topic.create.insert"
  /\ LET d == call[p].data
         topicId == InsertId
         row == [NewTopic(d.category, d.title, 0, 0, topicId) EXCEPT !.content = d.content]
         c == [call[p] EXCEPT !.id = topicId]
     IN
     \/ /\ StoreFailsTo(p, "Topic.create.rollback", "insert")
        /\ UNCHANGED conn
     \/ /\ d.authorId \notin UserIds
        /\ RaiseTo(p, "Topic.create.rollback", "fk", "insert")
        /\ UNCHANGED conn
     \/ /\ d.authorId \in UserIds
        /\ conn' = [conn EXCEPT ![p].topicWrites = @ \cup {[id |-> topicId, row |-> row]}]
        /\ IF Len(call[p].tags) > 0
           THEN CallAddTagsToTopic(p, "Topic.create.addTagsToTopic", c,
                                   topicId, call[p].tags)
           ELSE StepWith(p, "Topic.create.commit", c)
  /\ UNCHANGED <<likeVars, tags, tags_auto_increment, topic_tags, histVars>>

Topic_create_addTagsToTopic(p) ==
  TxAddTagsToTopic(p, "Topic.create.addTagsToTopic", "Topic.create.commit",
                   "Topic.create.rollback")

Topic_create_commit(p) == TxCommit(p, "Topic.create.commit", "Topic.create.rollback")

Topic_create_rollback(p) == TxRollback(p, "Topic.create.rollback")

\* ------------------------------------------------------------ Topic.update
Topic_update(p, id, d, refs) ==
  /\ tags_auto_increment + NameRefs(refs) <= MaxTagId + 1
  /\ pc[p] = "idle"
  /\ pc' = [pc EXCEPT ![p] = "Topic.update.getConnection"]
  /\ call' = [call EXCEPT ![p] =
                [NewCall("Topic.update", id, 0, refs) EXCEPT !.data = d]]
  /\ before' = [before EXCEPT ![p] = Store]
  /\ UNCHANGED <<likeVars, tagVars, last, errored, failures>>

Topic_update_getConnection(p) ==
  TxGetConnection(p, "Topic.update.getConnection", "Topic.update.beginTransaction")

Topic_update_beginTransaction(p) ==
  TxBeginTransaction(p, "Topic.update.beginTransaction", "Topic.update.update",
                     "Topic.update.rollback")

\* the row after UPDATE topics SET <the given fields> WHERE id = ?
UpdatedTopic(row, d) ==
  [row EXCEPT !.title = IF d.hasTitle THEN d.title ELSE @,
              !.content = IF d.hasContent THEN d.content ELSE @,
              !.category = IF d.hasCategory THEN d.category ELSE @]

\* if (updateFields.length > 0) UPDATE topics ...;
\* if (tags !== undefined) await Tag.addTagsToTopic(id, tags, connection)
Topic_update_update(p) ==
  /\ pc[p] = "Topic.update.update"
  /\ LET d == call[p].data
         id == call[p].id
         hasFields == d.hasTitle \/ d.hasContent \/ d.hasCategory
         writes == IF hasFields /\ id \in DOMAIN topics
                   THEN {[id |-> id, row |-> UpdatedTopic(topics[id], d)]}
                   ELSE {}
     IN
     \/ /\ hasFields
        /\ StoreFailsTo(p, "Topic.update.rollback", "update")
        /\ UNCHANGED conn
     \/ /\ conn' = [conn EXCEPT ![p].topicWrites = @ \cup writes]
        /\ IF d.hasTags
           THEN CallAddTagsToTopic(p, "Topic.update.addTagsToTopic", call[p],
                                   id, call[p].tags)
           ELSE Step(p, "Topic.update.commit")
  /\ UNCHANGED <<likeVars, tags, tags_auto_increment, topic_tags, histVars>>

Topic_update_addTagsToTopic(p) ==
  TxAddTagsToTopic(p, "Topic.update.addTagsToTopic", "Topic.update.commit",
                   "Topic.update.rollback")

Topic_update_commit(p) == TxCommit(p, "Topic.update.commit", "Topic.update.rollback")

Topic_update_rollback(p) == TxRollback(p, "Topic.update.rollback")

\* ---------------------------------------------------- Topic.incrementViews
Topic_incrementViews(p, id) ==
  /\ id \in DOMAIN topics => topics[id].views < MaxViews
  /\ Begin(p, "Topic.incrementViews", id, 0, <<>>, "Topic.incrementViews.update")
  /\ UNCHANGED <<likeVars, tagVars>>

\* UPDATE topics SET views = views + 1 WHERE id = ?
IncrementViews(rows, id) ==
  [t \in DOMAIN rows |-> IF t = id THEN [rows[t] EXCEPT !.views = @ + 1] ELSE rows[t]]

\* the UPDATE raced against the timer; catch (error) { logger.warn(...) }.
\* When the race is lost the statement is not withdrawn: the store has
\* applied it or has not
Topic_incrementViews_update(p) ==
  /\ pc[p] = "Topic.incrementViews.update"
  /\ \/ /\ failures < MaxFailures
        /\ failures' = failures + 1
        /\ pc' = [pc EXCEPT ![p] = "done"]
        /\ call' = [call EXCEPT ![p].status = "ok", ![p].failedAt = "update"]
        /\ \/ UNCHANGED topics
           \/ topics' = IncrementViews(topics, call[p].id)
     \/ /\ topics' = IncrementViews(topics, call[p].id)
        /\ StepWith(p, "done", [call[p] EXCEPT !.status = "ok"])
  /\ UNCHANGED <<comments, topic_likes, comment_likes, tagVars, histVars>>

\* -------------------------------------------------------------- the caller
IsLikeOp(op) == op \in {"Topic.like", "Topic.unlike", "Comment.like", "Comment.unlike"}

LikesBefore(p) ==
  IF call[p].op \in {"Topic.like", "Topic.unlike"}
  THEN before[p].topic_likes ELSE before[p].comment_likes

Summary(p) ==
  [op |-> call[p].op, id |-> call[p].id, userId |-> call[p].userId,
   status |-> call[p].status,
   rowsBefore |-> SumOver(LikesBefore(p), {k \in DOMAIN LikesBefore(p) : k[1] = call[p].id}),
   likedBefore |-> LikesBefore(p)[<<call[p].id, call[p].userId>>] > 0]

\* the caller receives the result (or the rejection); the request ends
Return(p) ==
  /\ pc[p] = "done"
  /\ pc' = [pc EXCEPT ![p] = "idle"]
  /\ last' = IF call[p].op \in {"Topic.like", "Comment.like"} THEN Summary(p) ELSE NoLast
  /\ errored' = (errored \/ (IsLikeOp(call[p].op) /\ call[p].status = "error"))
  /\ call' = [call EXCEPT ![p] = NoCall]
  /\ before' = [before EXCEPT ![p] = <<>>]
  /\ UNCHANGED <<likeVars, tagVars, failures>>

\* ------------------------------------------------------------------ Init
Init ==
  /\ comments = [c \in CommentIds |-> NewComment(1, c)]
  /\ topics = [t \in TopicIds |->
                 [NewTopic("c1", <<"x">>, 0, 0, t) EXCEPT
                    !.comments_count = ActiveComments(comments, t)]]
  /\ topic_likes = [k \in (TopicIds \cup {MissingTopicId}) \X UserIds |-> 0]
  /\ comment_likes = [k \in (CommentIds \cup {MissingCommentId}) \X UserIds |-> 0]
  /\ tags = {}
  /\ tags_auto_increment = 1
  /\ topic_tags = {}
  /\ pc = [p \in Procs |-> "idle"]
  /\ call = [p \in Procs |-> NoCall]
  /\ conn = [p \in Procs |-> NoConn]
  /\ before = [p \in Procs |-> <<>>]
  /\ last = NoLast
  /\ failures = 0
  /\ errored = FALSE

\* like/unlike requests served one after another (non-overlapping calls)
NextLikes ==
  \E p \in Procs :
    \/ /\ Idle
       /\ \E topicId \in TopicIds \cup {MissingTopicId}, userId \in UserIds :
            \/ Topic_like(p, topicId, userId)
            \/ Topic_unlike(p, topicId, userId)
    \/ /\ Idle
       /\ \E commentId \in CommentIds \cup {MissingCommentId}, userId \in UserIds :
            \/ Comment_like(p, commentId, userId)
            \/ Comment_unlike(p, commentId, userId)
    \/ Topic_like_select(p)
    \/ Topic_like_insert(p)
    \/ Topic_unlike_delete(p)
    \/ Topic_getLikesCount_select(p)
    \/ Topic_getLikesCount_update(p)
    \/ Comment_like_select(p)
    \/ Comment_like_insert(p)
    \/ Comment_unlike_delete(p)
    \/ Comment_getLikesCount_select(p)
    \/ Comment_getLikesCount_update(p)
    \/ Return(p)

SpecLikes == Init /\ [][NextLikes]_vars

\* ---------------------------------------------------------- tag requests
RefNumbers == 1..1
RefStrings == {<<"1">>, <<"a">>, <<"b">>}
RefValues == {NumRef(n) : n \in RefNumbers} \cup {StrRef(x) : x \in RefStrings}
RefLists == UNION {[1..n -> RefValues] : n \in 0..MaxRefs}

\* tag synchronisation requests served one after another
NextTags ==
  \E p \in Procs :
    \/ /\ Idle
       /\ \E topicId \in TopicIds \cup {MissingTopicId}, refs \in RefLists :
            Tag_addTagsToTopic(p, topicId, refs)
    \/ Tag_addTagsToTopic_getConnection(p)
    \/ Tag_addTagsToTopic_beginTransaction(p)
    \/ Tag_addTagsToTopic_delete(p)
    \/ Tag_addTagsToTopic_select(p)
    \/ Tag_addTagsToTopic_insertTag(p)
    \/ Tag_addTagsToTopic_insertTopicTag(p)
    \/ Tag_addTagsToTopic_commit(p)
    \/ Tag_addTagsToTopic_getTopicTags(p)
    \/ Tag_addTagsToTopic_rollback(p)
    \/ Tag_addTagsToTopic_again(p)
    \/ Return(p)

SpecTags == Init /\ [][NextTags]_vars

\* ============================================================== listings
\* JavaScript truthiness of an optional argument given as number or string
Truthy(v) ==
  \/ v.type = "number" /\ v.num # 0
  \/ v.type = "string" /\ Len(v.str) > 0

\* page = 1, limit = 10, sort = 'latest' unless the caller supplies a value
PageOf(o) == IF o.page.type = "undefined" THEN NumRef(DefaultPage) ELSE o.page
LimitOf(o) == IF o.limit.type = "undefined" THEN NumRef(DefaultLimit) ELSE o.limit
SortOf(o) == IF o.sort = "undefined" THEN "latest" ELSE o.sort

\* text LIKE '%term%' for a term without wildcard characters
Like(text, term) ==
  \E k \in 0..(Len(text) - Len(term)) : SubSeq(text, k + 1, k + Len(term)) = term

\* number of rows of a likes table for (entity, user); no row for unknown keys
LikeRowsOf(table, id, userId) ==
  IF <<id, userId>> \in DOMAIN table THEN table[<<id, userId>>] ELSE 0

\* (SELECT COUNT(*) FROM topic_likes WHERE topic_id = t.id) as likes_count
LiveLikes(table, id) ==
  SumOver(table, {k \in DOMAIN table : k[1] = id})

\* ------------------------------------------------------ statement texts
\* a statement text as its tokens: text without quote or placeholder, a
\* single quote, a ? placeholder (with the column its value is meant for)
Txt == [t |-> "text", for |-> ""]
Quote == [t |-> "quote", for |-> ""]
Ph(column) == [t |-> "?", for |-> column]

\* an element of the parameter array: the column it is meant for, the value
Param(column, v) == [for |-> column, val |-> v]

\* the statement as the parser reads it: a quote opens or closes a string
\* literal, a ? inside a literal is a character of the literal.
\* The columns of the placeholders, in order
RECURSIVE PlaceholdersFrom(_, _, _)
PlaceholdersFrom(tokens, j, inLiteral) ==
  IF j > Len(tokens) THEN <<>>
  ELSE IF tokens[j].t = "quote" THEN PlaceholdersFrom(tokens, j + 1, ~inLiteral)
  ELSE IF tokens[j].t = "?" /\ ~inLiteral
       THEN <<tokens[j].for>> \o PlaceholdersFrom(tokens, j + 1, inLiteral)
  ELSE PlaceholdersFrom(tokens, j + 1, inLiteral)

Placeholders(tokens) == PlaceholdersFrom(tokens, 1, FALSE)

\* every string literal of the statement is closed
QuotesBalanced(tokens) ==
  Cardinality({j \in 1..Len(tokens) : tokens[j].t = "quote"}) % 2 = 0

\* countParams of Topic.getList, as pushed filter by filter
TopicCountParams(o) ==
  (IF Truthy(o.tag)
   THEN IF IsNumericRef(o.tag)
        THEN <<Param("tg.id", NumRef(ToNumber(o.tag))), Param("tg.name", StrRef(<<>>))>>
        ELSE <<Param("tg.id", NumRef(0)), Param("tg.name", o.tag)>>
   ELSE <<>>)
  \o (IF o.category # "" THEN <<Param("t.category", StrRef(<<o.category>>))>> ELSE <<>>)
  \o (IF Len(o.search) > 0
      THEN <<Param("t.title", StrRef(o.search)), Param("t.content", StrRef(o.search))>>
      ELSE <<>>)

\* params of Topic.getList, as pushed filter by filter
TopicParams(o) ==
  (IF Truthy(o.tag)
   THEN IF IsNumericRef(o.tag)
        THEN <<Param("tg.id", NumRef(ToNumber(o.tag))), Param("tg.name", StrRef(<<>>))>>
        ELSE <<Param("tg.id", NumRef(0)), Param("tg.name", o.tag)>>
   ELSE <<>>)
  \o (IF o.category # "" THEN <<Param("t.category", StrRef(<<o.category>>))>> ELSE <<>>)
  \o (IF Len(o.search) > 0
      THEN <<Param("t.title", StrRef(o.search)), Param("t.content", StrRef(o.search))>>
      ELSE <<>>)

\* whereParts.join(' AND ') of Topic.getList:
\*   t.status = 'active' [AND (tg.id = ? OR tg.name = ?)'] [AND t.category = ?]
\*   [AND (t.title LIKE ? OR t.content LIKE ?)]
TopicWhereClause(o) ==
  <<Txt, Quote, Txt, Quote>>
  \o (IF Truthy(o.tag) THEN <<Txt, Ph("tg.id"), Txt, Ph("tg.name"), Txt, Quote>> ELSE <<>>)
  \o (IF o.category # "" THEN <<Txt, Ph("t.category")>> ELSE <<>>)
  \o (IF Len(o.search) > 0 THEN <<Txt, Ph("t.title"), Txt, Ph("t.content"), Txt>> ELSE <<>>)

\* the data statement of Topic.getList: the select list (the viewer id is
\* written into it by pool.escape), the joins, the WHERE clause, GROUP BY,
\* ORDER BY, LIMIT and OFFSET
TopicQuery(o) == <<Txt>> \o TopicWhereClause(o) \o <<Txt>>

\* SELECT COUNT(DISTINCT t.id) as total FROM topics t <joins> <WHERE clause>
TopicCountQuery(o) == <<Txt>> \o TopicWhereClause(o)

\* whereParts.join(' AND ') of Comment.getList: c.topic_id = ? AND c.status = 'active'
CommentWhereClause(o) == <<Txt, Ph("c.topic_id"), Txt, Quote, Txt, Quote>>

CommentQuery(o) == <<Txt>> \o CommentWhereClause(o) \o <<Txt>>
CommentCountQuery(o) == <<Txt>> \o CommentWhereClause(o)

\* params and countParams of Comment.getList: [Number(topicId)]
CommentParams(o) == <<Param("c.topic_id", NumRef(ToNumber(o.topicId)))>>
CommentCountParams(o) == <<Param("c.topic_id", NumRef(ToNumber(o.topicId)))>>

\* the statement text: the tag fragment ends in an unbalanced quote, so a
\* statement built with a tag filter is rejected by the parser
TagFragmentParses(o) == QuotesBalanced(TopicQuery(o))

\* WHERE t.status = 'active' [AND t.category = ?] [AND (title LIKE ? OR content LIKE ?)]
TopicWhere(rows, id, o) ==
  /\ rows[id].status = "active"
  /\ (o.category # "" => rows[id].category = o.category)
  /\ (Len(o.search) > 0 =>
        (Like(rows[id].title, o.search) \/ Like(rows[id].content, o.search)))

\* faulty variant: an unrecognised sort value is ordered like hot
OrderKey_HotByDefault(rows, likes, id, sort) ==
  IF sort = "latest"
  THEN <<rows[id].created_at>>
  ELSE IF sort = "official"
  THEN <<rows[id].is_official, rows[id].created_at>>
  ELSE <<rows[id].is_hot, LiveLikes(likes, id), rows[id].created_at>>

\* faulty variant: the live like count is left out of the hot ordering
OrderKey_NoLikes(rows, likes, id, sort) ==
  IF sort = "hot"
  THEN <<rows[id].is_hot, rows[id].created_at>>
  ELSE IF sort = "official"
  THEN <<rows[id].is_official, rows[id].created_at>>
  ELSE <<rows[id].created_at>>

\* the ORDER BY expressions of a sort mode, all DESC (likes_count is the
\* select alias of the live count)
OrderKey(rows, likes, id, sort) ==
  IF sort = "hot"
  THEN <<rows[id].is_hot, LiveLikes(likes, id), rows[id].created_at>>
  ELSE IF sort = "official"
  THEN <<rows[id].is_official, rows[id].created_at>>
  ELSE <<rows[id].created_at>>

\* k1 sorts strictly before k2 under DESC, DESC, ...
RECURSIVE KeyBefore(_, _)
KeyBefore(k1, k2) ==
  /\ Len(k1) > 0
  /\ \/ Head(k1) > Head(k2)
     \/ Head(k1) = Head(k2) /\ KeyBefore(Tail(k1), Tail(k2))

\* rows with equal keys come out in primary-key order
RowBefore(rows, likes, sort, a, b) ==
  LET ka == OrderKey(rows, likes, a, sort)
      kb == OrderKey(rows, likes, b, sort)
  IN KeyBefore(ka, kb) \/ (ka = kb /\ a < b)

RECURSIVE OrderBy(_, _, _, _)
OrderBy(rows, likes, sort, ids) ==
  IF ids = {} THEN <<>>
  ELSE LET first == CHOOSE a \in ids :
                      \A b \in ids \ {a} : RowBefore(rows, likes, sort, a, b)
       IN <<first>> \o OrderBy(rows, likes, sort, ids \ {first})

\* LIMIT limit OFFSET offset
LimitOffset(seq, limit, offset) ==
  IF offset >= Len(seq) THEN <<>>
  ELSE SubSeq(seq, offset + 1,
              IF offset + limit < Len(seq) THEN offset + limit ELSE Len(seq))

\* faulty variant: the viewer is ignored and any like row counts
IsLiked_AnyUser(table, id, userId) ==
  LiveLikes(table, id) > 0

\* isLiked: userId ? (row.isLikedByCurrentUser === 1) : false
IsLiked(table, id, userId) ==
  IF userId # 0 THEN LikeRowsOf(table, id, userId) > 0 ELSE FALSE

\* the row object of the driver: the columns are assigned by name in the
\* order of the select list, so of two columns of one name the later stays
ColumnOf(cols, name) ==
  LET js == {j \in 1..Len(cols) : cols[j][1] = name}
  IN cols[CHOOSE j \in js : \A k \in js : k <= j][2]

\* v || 0
OrZero(v) == IF Truthy(v) THEN v.num ELSE 0

\* faulty variant: the select list is t.* alone, the counters are the stored ones
TopicColumns_Stored(id) ==
  << <<"likes_count", NumRef(topics[id].likes_count)>>,
     <<"comments_count", NumRef(topics[id].comments_count)>> >>

\* SELECT t.*, (SELECT COUNT(*) FROM topic_likes ...) as likes_count,
\*        (SELECT COUNT(*) FROM comments ...) as comments_count
\* the counter columns of the row, in the order of the select list
TopicColumns(id) ==
  << <<"likes_count", NumRef(topics[id].likes_count)>>,
     <<"comments_count", NumRef(topics[id].comments_count)>>,
     <<"likes_count", NumRef(LiveLikes(topic_likes, id))>>,
     <<"comments_count", NumRef(ActiveComments(comments, id))>> >>

\* SELECT c.*, (SELECT COUNT(*) FROM comment_likes ...) as likes_count
CommentColumns(id) ==
  << <<"likes_count", NumRef(comments[id].likes_count)>>,
     <<"likes_count", NumRef(LiveLikes(comment_likes, id))>> >>

\* one formatted topic of the result
TopicItem(id, userId) ==
  [id |-> id,
   likesCount |-> OrZero(ColumnOf(TopicColumns(id), "likes_count")),
   commentsCount |-> OrZero(ColumnOf(TopicColumns(id), "comments_count")),
   isLiked |-> IsLiked(topic_likes, id, userId),
   tags |-> {}]

\* the data query of Topic.getList
SelectTopics(o, limitInt, offset) ==
  LET ids == OrderBy(topics, topic_likes, SortOf(o),
                     {t \in DOMAIN topics : TopicWhere(topics, t, o)})
      page == LimitOffset(ids, limitInt.n, offset.n)
  IN [j \in 1..Len(page) |-> TopicItem(page[j], o.userId)]

\* SELECT COUNT(DISTINCT t.id) as total FROM topics t ... WHERE ...
CountTopics(o) ==
  Cardinality({t \in DOMAIN topics : TopicWhere(topics, t, o)})

BeginList(p, op, o, label) ==
  /\ pc[p] = "idle"
  /\ pc' = [pc EXCEPT ![p] = label]
  /\ call' = [call EXCEPT ![p] =
       [NewCall(op, 0, o.userId, <<>>) EXCEPT
          !.options = o,
          !.pageInt = ParseInt(PageOf(o)),
          !.limitInt = ParseInt(LimitOf(o)),
          !.offset = Offset(ParseInt(PageOf(o)), ParseInt(LimitOf(o)))]]
  /\ before' = [before EXCEPT ![p] = Store]
  /\ UNCHANGED <<last, errored, failures>>

\* ----------------------------------------------------------- Topic.getList
Topic_getList(p, o) ==
  /\ BeginList(p, "Topic.getList", o, "Topic.getList.query")
  /\ UNCHANGED <<likeVars, tagVars>>

Topic_getList_query(p) ==
  /\ pc[p] = "Topic.getList.query"
  /\ LET c == call[p]
         parses == /\ TagFragmentParses(c.options)
                   /\ LimitClauseParses(c.limitInt, c.offset)
     IN \/ StoreFails(p, "query")
        \/ /\ ~parses
           /\ Raise(p, "syntax", "query")
        \/ /\ parses
           /\ StepWith(p, "Topic.getList.count",
                [c EXCEPT !.items = SelectTopics(c.options, c.limitInt, c.offset)])
  /\ UNCHANGED <<likeVars, tagVars, histVars>>

Topic_getList_count(p) ==
  /\ pc[p] = "Topic.getList.count"
  /\ LET c == call[p]
         total == CountTopics(c.options)
         r == [c EXCEPT !.totalCount = total,
                        !.pageCount = MathCeil(total, c.limitInt)]
     IN \/ StoreFails(p, "count")
        \/ /\ ~TagFragmentParses(c.options)
           /\ Raise(p, "syntax", "count")
        \/ /\ TagFragmentParses(c.options)
           /\ IF Len(c.items) = 0
              THEN StepWith(p, "done", [r EXCEPT !.status = "ok"])
              ELSE StepWith(p, "Topic.getList.getTopicTags", r)
  /\ UNCHANGED <<likeVars, tagVars, histVars>>

\* Promise.all over Tag.getTopicTags of every returned row
\* faulty variant: a failed tag lookup is swallowed, the page is returned
\* with the rows as they are
Topic_getList_getTopicTags_Swallow(p) ==
  /\ pc[p] = "Topic.getList.getTopicTags"
  /\ LET c == call[p] IN
     \/ /\ failures < MaxFailures
        /\ failures' = failures + 1
        /\ pc' = [pc EXCEPT ![p] = "done"]
        /\ call' = [call EXCEPT ![p].status = "ok", ![p].failedAt = "getTopicTags"]
     \/ StepWith(p, "done",
          [c EXCEPT !.status = "ok",
                    !.items = [j \in 1..Len(c.items) |->
                       [c.items[j] EXCEPT !.tags =
                          {t.name : t \in SelectTopicTags(tags, topic_tags, c.items[j].id)}]]])
  /\ UNCHANGED <<likeVars, tagVars, histVars>>

Topic_getList_getTopicTags(p) ==
  /\ pc[p] = "Topic.getList.getTopicTags"
  /\ LET c == call[p] IN
     \/ StoreFails(p, "getTopicTags")
     \/ StepWith(p, "done",
          [c EXCEPT !.status = "ok",
                    !.items = [j \in 1..Len(c.items) |->
                       [c.items[j] EXCEPT !.tags =
                          {t.name : t \in SelectTopicTags(tags, topic_tags, c.items[j].id)}]]])
  /\ UNCHANGED <<likeVars, tagVars, histVars>>

\* --------------------------------------------------------- Comment.getList
\* WHERE c.topic_id = ? AND c.status = 'active'
CommentWhere(rows, id, topicId) ==
  rows[id].topic_id = topicId /\ rows[id].status = "active"

\* ORDER BY c.created_at DESC; equal timestamps in primary-key order
RECURSIVE OrderComments(_, _)
OrderComments(rows, ids) ==
  IF ids = {} THEN <<>>
  ELSE LET first == CHOOSE a \in ids : \A b \in ids \ {a} :
                      \/ rows[a].created_at > rows[b].created_at
                      \/ rows[a].created_at = rows[b].created_at /\ a < b
       IN <<first>> \o OrderComments(rows, ids \ {first})

CommentItem(id, userId) ==
  [id |-> id,
   likesCount |-> OrZero(ColumnOf(CommentColumns(id), "likes_count")),
   commentsCount |-> 0,
   isLiked |-> IsLiked(comment_likes, id, userId),
   tags |-> {}]

SelectComments(o, limitInt, offset) ==
  LET ids == OrderComments(comments,
               {c \in DOMAIN comments : CommentWhere(comments, c, ToNumber(o.topicId))})
      page == LimitOffset(ids, limitInt.n, offset.n)
  IN [j \in 1..Len(page) |-> CommentItem(page[j], o.userId)]

\* SELECT COUNT(*) as total FROM comments c WHERE ...
CountComments(o) ==
  Cardinality({c \in DOMAIN comments : CommentWhere(comments, c, ToNumber(o.topicId))})

Comment_getList(p, o) ==
  /\ BeginList(p, "Comment.getList", o, "Comment.getList.query")
  /\ UNCHANGED <<likeVars, tagVars>>

Comment_getList_query(p) ==
  /\ pc[p] = "Comment.getList.query"
  /\ LET c == call[p]
         parses == LimitClauseParses(c.limitInt, c.offset)
     IN \/ StoreFails(p, "query")
        \/ /\ ~parses
           /\ Raise(p, "syntax", "query")
        \/ /\ parses
           /\ StepWith(p, "Comment.getList.count",
                [c EXCEPT !.items = SelectComments(c.options, c.limitInt, c.offset)])
  /\ UNCHANGED <<likeVars, tagVars, histVars>>

Comment_getList_count(p) ==
  /\ pc[p] = "Comment.getList.count"
  /\ LET c == call[p]
         total == CountComments(c.options)
     IN \/ StoreFails(p, "count")
        \/ StepWith(p, "done",
             [c EXCEPT !.status = "ok", !.totalCount = total,
                       !.pageCount = MathCeil(total, c.limitInt)])
  /\ UNCHANGED <<likeVars, tagVars, histVars>>

\* ---------------------------------------------------------- Topic.findById
\* params = [id] or [id, id, userId], bound to the placeholders in textual
\* order: with a viewer the subquery gets (id, id) and WHERE t.id = ? gets userId
FindByIdWhereParam(id, userId) == IF userId # 0 THEN userId ELSE id

Topic_findById(p, id, userId) ==
  /\ Begin(p, "Topic.findById", id, userId, <<>>, "Topic.findById.select")
  /\ UNCHANGED <<likeVars, tagVars>>

Topic_findById_select(p) ==
  /\ pc[p] = "Topic.findById.select"
  /\ LET c == call[p]
         t == FindByIdWhereParam(c.id, c.userId)
         hit == t \in DOMAIN topics /\ topics[t].status = "active"
     IN \/ StoreFails(p, "select")
        \/ /\ ~hit
           /\ StepWith(p, "done", [c EXCEPT !.status = "ok", !.found = FALSE])
        \/ /\ hit
           /\ StepWith(p, "Topic.findById.getTopicTags",
                [c EXCEPT !.found = TRUE,
                   !.items = <<[TopicItem(t, 0) EXCEPT
                      !.isLiked = IsLiked(topic_likes, c.id, IF c.userId # 0 THEN c.id ELSE 0)]>>])
  /\ UNCHANGED <<likeVars, tagVars, histVars>>

Topic_findById_getTopicTags(p) ==
  /\ pc[p] = "Topic.findById.getTopicTags"
  /\ LET c == call[p] IN
     \/ StoreFails(p, "getTopicTags")
     \/ StepWith(p, "done",
          [c EXCEPT !.status = "ok",
                    !.items = <<[c.items[1] EXCEPT !.tags =
                       {t.name : t \in SelectTopicTags(tags, topic_tags, c.id)}]>>])
  /\ UNCHANGED <<likeVars, tagVars, histVars>>

\* -------------------------------------------------------- Comment.findById
Comment_findById(p, id) ==
  /\ Begin(p, "Comment.findById", id, 0, <<>>, "Comment.findById.select")
  /\ UNCHANGED <<likeVars, tagVars>>

Comment_findById_select(p) ==
  /\ pc[p] = "Comment.findById.select"
  /\ LET c == call[p]
         hit == c.id \in DOMAIN comments /\ comments[c.id].status = "active"
     IN \/ StoreFails(p, "select")
        \/ StepWith(p, "done",
             [c EXCEPT !.status = "ok", !.found = hit,
                       !.items = IF hit THEN <<CommentItem(c.id, 0)>> ELSE <<>>])
  /\ UNCHANGED <<likeVars, tagVars, histVars>>

\* ------------------------------------------------------------ Topic.delete
\* faulty variant: the row is physically removed
SoftDelete_Remove(rows, id) ==
  [k \in DOMAIN rows \ {id} |-> rows[k]]

\* UPDATE ... SET status = 'deleted' WHERE id = ?
SoftDelete(rows, id) ==
  IF id \in DOMAIN rows THEN [rows EXCEPT ![id].status = "deleted"] ELSE rows

\* affectedRows: the rows matched by WHERE id = ?
AffectedRows(rows, id) == IF id \in DOMAIN rows THEN 1 ELSE 0

Topic_delete(p, id) ==
  /\ Begin(p, "Topic.delete", id, 0, <<>>, "Topic.delete.update")
  /\ UNCHANGED <<likeVars, tagVars>>

Topic_delete_update(p) ==
  /\ pc[p] = "Topic.delete.update"
  /\ \/ /\ StoreFails(p, "update")
        /\ \/ UNCHANGED topics
           \/ topics' = SoftDelete(topics, call[p].id)
     \/ /\ topics' = SoftDelete(topics, call[p].id)
        /\ StepWith(p, "done",
             [call[p] EXCEPT !.status = "ok", !.ret = AffectedRows(topics, call[p].id)])
  /\ UNCHANGED <<comments, topic_likes, comment_likes, tagVars, histVars>>

\* ---------------------------------------------------------- Comment.delete
\* faulty variant: the subquery counts the comments of every status
UpdateCommentsCount_AllStatuses(rows, commentRows, topicId) ==
  IF topicId \in DOMAIN rows
  THEN [rows EXCEPT ![topicId].comments_count =
          Cardinality({c \in DOMAIN commentRows : commentRows[c].topic_id = topicId})]
  ELSE rows

\* UPDATE topics SET comments_count = (SELECT COUNT(*) ... status = 'active')
UpdateCommentsCount(rows, commentRows, topicId) ==
  IF topicId \in DOMAIN rows
  THEN [rows EXCEPT ![topicId].comments_count = ActiveComments(commentRows, topicId)]
  ELSE rows

Comment_delete(p, id) ==
  /\ Begin(p, "Comment.delete", id, 0, <<>>, "Comment.delete.select")
  /\ UNCHANGED <<likeVars, tagVars>>

\* SELECT topic_id FROM comments WHERE id = ?
Comment_delete_select(p) ==
  /\ pc[p] = "Comment.delete.select"
  /\ \/ StoreFails(p, "select")
     \/ IF call[p].id \in DOMAIN comments
        THEN Step(p, "Comment.delete.update")
        ELSE StepWith(p, "done", [call[p] EXCEPT !.status = "ok", !.ret = 0])
  /\ UNCHANGED <<likeVars, tagVars, histVars>>

Comment_delete_update(p) ==
  /\ pc[p] = "Comment.delete.update"
  /\ \/ /\ StoreFails(p, "update")
        /\ \/ UNCHANGED comments
           \/ comments' = SoftDelete(comments, call[p].id)
     \/ /\ comments' = SoftDelete(comments, call[p].id)
        /\ StepWith(p, "Comment.delete.recount",
             [call[p] EXCEPT !.ret = AffectedRows(comments, call[p].id)])
  /\ UNCHANGED <<topics, topic_likes, comment_likes, tagVars, histVars>>

Comment_delete_recount(p) ==
  /\ pc[p] = "Comment.delete.recount"
  /\ \/ /\ StoreFails(p, "recount")
        /\ \/ UNCHANGED topics
           \/ topics' = UpdateCommentsCount(topics, comments, comments[call[p].id].topic_id)
     \/ /\ topics' = UpdateCommentsCount(topics, comments, comments[call[p].id].topic_id)
        /\ StepWith(p, "done", [call[p] EXCEPT !.status = "ok"])
  /\ UNCHANGED <<comments, topic_likes, comment_likes, tagVars, histVars>>

\* ---------------------------------------------------------- Comment.create
\* result.insertId of INSERT INTO comments: the next id of the table
CommentInsertId == Cardinality(DOMAIN comments) + 1

\* INSERT INTO comments (topic_id, author_id, ...): "fk" when FOREIGN KEY
\* (topic_id) or FOREIGN KEY (author_id) finds no row
InsertCommentCheck(topicId, authorId) ==
  IF topicId \in DOMAIN topics /\ authorId \in UserIds THEN "ok" ELSE "fk"

InsertComment(rows, id, topicId) ==
  [c \in DOMAIN rows \cup {id} |->
     IF c = id THEN NewComment(topicId, id) ELSE rows[c]]

Comment_create(p, topicId, authorId) ==
  /\ CommentInsertId <= MaxComments
  /\ pc[p] = "idle"
  /\ pc' = [pc EXCEPT ![p] = "Comment.create.insert"]
  /\ call' = [call EXCEPT ![p] =
                [NewCall("Comment.create", 0, authorId, <<>>) EXCEPT
                   !.options = [NoOptions EXCEPT !.topicId = NumRef(topicId)]]]
  /\ before' = [before EXCEPT ![p] = Store]
  /\ UNCHANGED <<likeVars, tagVars, last, errored, failures>>

\* INSERT INTO comments on the pool, raced against the timer; an INSERT that
\* lost the race is applied or is not
Comment_create_insert(p) ==
  /\ pc[p] = "Comment.create.insert"
  /\ LET topicId == call[p].options.topicId.num
         chk == InsertCommentCheck(topicId, call[p].userId)
         id == CommentInsertId
     IN
     \/ /\ StoreFails(p, "insert")
        /\ \/ UNCHANGED comments
           \/ chk = "ok" /\ comments' = InsertComment(comments, id, topicId)
     \/ /\ chk # "ok"
        /\ Raise(p, chk, "insert")
        /\ UNCHANGED comments
     \/ /\ chk = "ok"
        /\ comments' = InsertComment(comments, id, topicId)
        /\ StepWith(p, "Comment.create.recount", [call[p] EXCEPT !.id = id])
  /\ UNCHANGED <<topics, topic_likes, comment_likes, tagVars, histVars>>

\* UPDATE topics SET comments_count = (SELECT COUNT(*) ...) WHERE id = ? on
\* the pool, raced against the timer; return this.findById(result.insertId)
Comment_create_recount(p) ==
  /\ pc[p] = "Comment.create.recount"
  /\ LET counted == UpdateCommentsCount(topics, comments, call[p].options.topicId.num) IN
     \/ /\ StoreFails(p, "recount")
        /\ \/ UNCHANGED topics
           \/ topics' = counted
     \/ /\ topics' = counted
        /\ Step(p, "Comment.findById.select")
  /\ UNCHANGED <<comments, topic_likes, comment_likes, tagVars, histVars>>

\* ------------------------------------------------------ browsing requests
Categories == {"c1", "c2"}
Titles == {<<"x">>, <<"y">>}

PageValues ==
  {Undefined, NumRef(0), NumRef(1), NumRef(2), StrRef(<<"2">>),
   StrRef(<<"-", "1">>), StrRef(<<"a">>)}
LimitValues ==
  {Undefined, NumRef(0), NumRef(1), NumRef(2), StrRef(<<"1", "x">>),
   StrRef(<<"-", "1">>), StrRef(<<"a">>)}

TagFilters == {StrRef(<<>>), NumRef(1), StrRef(<<"a">>)}
Searches == {<<>>, <<"x">>, <<"z">>}

\* listing calls that vary page and limit only
PagingOptions ==
  {[NoOptions EXCEPT !.page = pg, !.limit = lm] :
     pg \in PageValues, lm \in LimitValues}

\* listing calls that vary the filters
FilterOptions ==
  {[NoOptions EXCEPT !.category = cat, !.tag = tg, !.search = s,
                     !.userId = u, !.limit = lm] :
     cat \in {""} \cup {"c1"}, tg \in TagFilters, s \in Searches,
     u \in {0, 1}, lm \in {Undefined, NumRef(1)}}

TopicIdValues ==
  {NumRef(t) : t \in TopicIds \cup {MissingTopicId}} \cup {StrRef(<<"1">>)}

CommentOptions ==
  {[o EXCEPT !.topicId = t] : o \in PagingOptions, t \in TopicIdValues}

\* a store with topics of any category and title, one comment thread
InitBrowse ==
  /\ comments = [c \in CommentIds |-> NewComment(1, c)]
  /\ topics \in
       {[t \in TopicIds |->
           [NewTopic(cat[t], title[t], 0, 0, t) EXCEPT
              !.comments_count = ActiveComments(comments, t)]] :
          cat \in [TopicIds -> Categories], title \in [TopicIds -> Titles]}
  /\ topic_likes = [k \in (TopicIds \cup {MissingTopicId}) \X UserIds |-> 0]
  /\ comment_likes = [k \in (CommentIds \cup {MissingCommentId}) \X UserIds |-> 0]
  /\ tags = {}
  /\ tags_auto_increment = 1
  /\ topic_tags = {}
  /\ pc = [p \in Procs |-> "idle"]
  /\ call = [p \in Procs |-> NoCall]
  /\ conn = [p \in Procs |-> NoConn]
  /\ before = [p \in Procs |-> <<>>]
  /\ last = NoLast
  /\ failures = 0
  /\ errored = FALSE

\* listings, lookups and soft deletes served one after another
NextBrowse ==
  \E p \in Procs :
    \/ /\ Idle
       /\ \E o \in PagingOptions \cup FilterOptions : Topic_getList(p, o)
    \/ /\ Idle
       /\ \E o \in CommentOptions : Comment_getList(p, o)
    \/ /\ Idle
       /\ \E id \in TopicIds \cup {MissingTopicId}, userId \in {0} \cup UserIds :
            Topic_findById(p, id, userId)
    \/ /\ Idle
       /\ \E id \in CommentIds \cup {MissingCommentId} : Comment_findById(p, id)
    \/ /\ Idle
       /\ \E id \in TopicIds \cup {MissingTopicId} : Topic_delete(p, id)
    \/ /\ Idle
       /\ \E id \in CommentIds \cup {MissingCommentId} : Comment_delete(p, id)
    \/ Topic_getList_query(p)
    \/ Topic_getList_count(p)
    \/ Topic_getList_getTopicTags(p)
    \/ Comment_getList_query(p)
    \/ Comment_getList_count(p)
    \/ Topic_findById_select(p)
    \/ Topic_findById_getTopicTags(p)
    \/ Comment_findById_select(p)
    \/ Topic_delete_update(p)
    \/ Comment_delete_select(p)
    \/ Comment_delete_update(p)
    \/ Comment_delete_recount(p)
    \/ Return(p)

SpecBrowse == InitBrowse /\ [][NextBrowse]_vars

\* ------------------------------------------------- listings with a viewer
\* no request is running, no transaction is open, the tag tables are empty
InitRequests ==
  /\ tags = {}
  /\ tags_auto_increment = 1
  /\ topic_tags = {}
  /\ pc = [p \in Procs |-> "idle"]
  /\ call = [p \in Procs |-> NoCall]
  /\ conn = [p \in Procs |-> NoConn]
  /\ before = [p \in Procs |-> <<>>]
  /\ last = NoLast
  /\ failures = 0
  /\ errored = FALSE

\* like tables with at most one row per (entity, user), none for unknown entities
LikeTables(entityIds, missingId) ==
  {[k \in (entityIds \cup {missingId}) \X UserIds |->
      IF k \in liked THEN 1 ELSE 0] : liked \in SUBSET (entityIds \X UserIds)}

ViewerOptions ==
  {[NoOptions EXCEPT !.userId = u, !.category = cat, !.sort = so] :
     u \in {0} \cup UserIds, cat \in {"", "c1"}, so \in {"undefined", "hot"}}

ViewerCommentOptions ==
  {[NoOptions EXCEPT !.userId = u, !.topicId = NumRef(t)] :
     u \in {0} \cup UserIds, t \in TopicIds}

\* a store with any like rows, the counters in step with them
InitViewer ==
  /\ comments = [c \in CommentIds |-> NewComment(1, c)]
  /\ topic_likes \in LikeTables(TopicIds, MissingTopicId)
  /\ comment_likes \in LikeTables(CommentIds, MissingCommentId)
  /\ topics = [t \in TopicIds |->
       [NewTopic(IF t = 1 THEN "c1" ELSE "c2", <<"x">>, 0, 0, t) EXCEPT
          !.comments_count = ActiveComments(comments, t),
          !.likes_count = LiveLikes(topic_likes, t)]]
  /\ InitRequests

NextViewer ==
  \E p \in Procs :
    \/ /\ Idle
       /\ \E o \in ViewerOptions : Topic_getList(p, o)
    \/ /\ Idle
       /\ \E o \in ViewerCommentOptions : Comment_getList(p, o)
    \/ /\ Idle
       /\ \E id \in TopicIds \cup {MissingTopicId}, userId \in {0} \cup UserIds :
            Topic_findById(p, id, userId)
    \/ Topic_getList_query(p)
    \/ Topic_getList_count(p)
    \/ Topic_getList_getTopicTags(p)
    \/ Comment_getList_query(p)
    \/ Comment_getList_count(p)
    \/ Topic_findById_select(p)
    \/ Topic_findById_getTopicTags(p)
    \/ Return(p)

SpecViewer == InitViewer /\ [][NextViewer]_vars

\* ============================================================= aggregates
\* table categories: not written by the operations modelled here
categories == {[id |-> 1, name |-> "c1"], [id |-> 2, name |-> "c2"]}

\* faulty variant: the join with topics forgets the status filter
TagTopicsCount_AllStatuses(tagId) ==
  Cardinality({r \in topic_tags : r[2] = tagId /\ r[1] \in DOMAIN topics})

\* (SELECT COUNT(*) FROM topic_tags tt INNER JOIN topics top ON tt.topic_id = top.id
\*  WHERE tt.tag_id = t.id AND top.status = 'active') AS topics_count
TagTopicsCount(tagId) ==
  Cardinality({r \in topic_tags :
                 /\ r[2] = tagId
                 /\ r[1] \in DOMAIN topics
                 /\ topics[r[1]].status = "active"})

\* (SELECT COUNT(*) FROM topics WHERE category = c.name AND status = 'active')
CategoryTopicsCount(name) ==
  Cardinality({t \in DOMAIN topics :
                 topics[t].category = name /\ topics[t].status = "active"})

TagResult(t) == [id |-> t.id, name |-> t.name, topicsCount |-> TagTopicsCount(t.id)]

CategoryResult(c) ==
  [id |-> c.id, name |-> c.name, topicsCount |-> CategoryTopicsCount(c.name)]

\* a single SELECT whose rows are the result
Lookup(p, label, result) ==
  /\ pc[p] = label
  /\ \/ StoreFails(p, "select")
     \/ StepWith(p, "done",
          [call[p] EXCEPT !.status = "ok", !.rows = result,
                          !.found = (result # {})])
  /\ UNCHANGED <<likeVars, tagVars, histVars>>

\* ----------------------------------------------------------------- Tag
Tag_getAll(p) ==
  /\ Begin(p, "Tag.getAll", 0, 0, <<>>, "Tag.getAll.select")
  /\ UNCHANGED <<likeVars, tagVars>>

Tag_getAll_select(p) ==
  Lookup(p, "Tag.getAll.select", {TagResult(t) : t \in tags})

Tag_findById(p, id) ==
  /\ Begin(p, "Tag.findById", id, 0, <<>>, "Tag.findById.select")
  /\ UNCHANGED <<likeVars, tagVars>>

Tag_findById_select(p) ==
  Lookup(p, "Tag.findById.select",
         {TagResult(t) : t \in SelectTagById(tags, call[p].id)})

Tag_findByName(p, name) ==
  /\ Begin(p, "Tag.findByName", 0, 0, <<StrRef(name)>>, "Tag.findByName.select")
  /\ UNCHANGED <<likeVars, tagVars>>

Tag_findByName_select(p) ==
  Lookup(p, "Tag.findByName.select",
         {TagResult(t) : t \in SelectTagByName(tags, call[p].tags[1].str)})

\* --------------------------------------------------------------- Tag.create
Tag_create(p, name) ==
  /\ tags_auto_increment <= MaxTagId
  /\ Begin(p, "Tag.create", 0, 0, <<StrRef(name)>>, "Tag.create.insert")
  /\ UNCHANGED <<likeVars, tagVars>>

\* INSERT INTO tags (name, created_at) on the pool, raced against the timer;
\* return this.findById(result.insertId). A refused INSERT has used up its
\* AUTO_INCREMENT value; an INSERT that lost the race is applied or is not
Tag_create_insert(p) ==
  /\ pc[p] = "Tag.create.insert"
  /\ LET name == call[p].tags[1].str
         chk == InsertTagCheck(tags, name)
         free == InsertTagBlockers(p, name) = {}
         row == [id |-> tags_auto_increment, name |-> name]
     IN
     \/ /\ StoreFails(p, "insert")
        /\ \/ UNCHANGED <<tags, tags_auto_increment>>
           \/ /\ free /\ chk = "ok"
              /\ tags' = tags \cup {row}
              /\ tags_auto_increment' = tags_auto_increment + 1
     \/ /\ free /\ chk # "ok"
        /\ Raise(p, chk, "insert")
        /\ tags_auto_increment' = tags_auto_increment + 1
        /\ UNCHANGED tags
     \/ /\ free /\ chk = "ok"
        /\ tags' = tags \cup {row}
        /\ tags_auto_increment' = tags_auto_increment + 1
        /\ StepWith(p, "Tag.findById.select", [call[p] EXCEPT !.id = row.id])
  /\ UNCHANGED <<likeVars, topic_tags, conn, histVars>>

\* --------------------------------------------------------------- Tag.delete
\* the rows of topic_tags that reference the tag
TagReferences(rows, tagId) == {r \in rows : r[2] = tagId}

\* a statement that touches the associations of the tag, or the tags row
\* they reference, waits for the transactions that hold locks on such
\* associations (rows they deleted or inserted and have not committed)
TagReferenceBlockers(p, tagId) ==
  {q \in OtherOpen(p) :
     TagReferences(conn[q].deleted \cup conn[q].inserted, tagId) # {}}

\* faulty variant: topic_tags has no FOREIGN KEY (tag_id)
DeleteTagCheck_NoForeignKey(rows, tagId) == "ok"

\* DELETE FROM tags WHERE id = tagId: "fk" when FOREIGN KEY (tag_id) of
\* topic_tags has a row that references the tag
DeleteTagCheck(rows, tagId) ==
  IF TagReferences(rows, tagId) # {} THEN "fk" ELSE "ok"

Tag_delete(p, id) ==
  /\ Begin(p, "Tag.delete", id, 0, <<>>, "Tag.delete.deleteTopicTags")
  /\ UNCHANGED <<likeVars, tagVars>>

\* DELETE FROM topic_tags WHERE tag_id = ? on the pool, raced against the
\* timer; a DELETE that lost the race is applied or is not
Tag_delete_deleteTopicTags(p) ==
  /\ pc[p] = "Tag.delete.deleteTopicTags"
  /\ LET free == TagReferenceBlockers(p, call[p].id) = {}
         rest == topic_tags \ TagReferences(topic_tags, call[p].id)
     IN
     \/ /\ StoreFails(p, "deleteTopicTags")
        /\ \/ UNCHANGED topic_tags
           \/ free /\ topic_tags' = rest
     \/ /\ free
        /\ topic_tags' = rest
        /\ Step(p, "Tag.delete.deleteTag")
  /\ UNCHANGED <<likeVars, tags, tags_auto_increment, conn, histVars>>

\* DELETE FROM tags WHERE id = ? on the pool, raced against the timer;
\* return result.affectedRows > 0
Tag_delete_deleteTag(p) ==
  /\ pc[p] = "Tag.delete.deleteTag"
  /\ LET free == TagReferenceBlockers(p, call[p].id) = {}
         chk == DeleteTagCheck(topic_tags, call[p].id)
         rows == SelectTagById(tags, call[p].id)
     IN
     \/ /\ StoreFails(p, "deleteTag")
        /\ \/ UNCHANGED tags
           \/ free /\ chk = "ok" /\ tags' = tags \ rows
     \/ /\ free /\ chk # "ok"
        /\ Raise(p, chk, "deleteTag")
        /\ UNCHANGED tags
     \/ /\ free /\ chk = "ok"
        /\ tags' = tags \ rows
        /\ StepWith(p, "done", [call[p] EXCEPT !.status = "ok",
                                               !.ret = Cardinality(rows),
                                               !.found = Cardinality(rows) > 0])
  /\ UNCHANGED <<likeVars, tags_auto_increment, topic_tags, conn, histVars>>

\* ------------------------------------------------------------ Category
Category_getAll(p) ==
  /\ Begin(p, "Category.getAll", 0, 0, <<>>, "Category.getAll.select")
  /\ UNCHANGED <<likeVars, tagVars>>

Category_getAll_select(p) ==
  Lookup(p, "Category.getAll.select", {CategoryResult(c) : c \in categories})

Category_findById(p, id) ==
  /\ Begin(p, "Category.findById", id, 0, <<>>, "Category.findById.select")
  /\ UNCHANGED <<likeVars, tagVars>>

Category_findById_select(p) ==
  Lookup(p, "Category.findById.select",
         {CategoryResult(c) : c \in {x \in categories : x.id = call[p].id}})

Category_findByName(p, name) ==
  /\ BeginList(p, "Category.findByName", [NoOptions EXCEPT !.category = name],
               "Category.findByName.select")
  /\ UNCHANGED <<likeVars, tagVars>>

Category_findByName_select(p) ==
  Lookup(p, "Category.findByName.select",
         {CategoryResult(c) :
            c \in {x \in categories : x.name = call[p].options.category}})

\* ------------------------------------------------ requests for aggregates
SeedTags == {[id |-> 1, name |-> <<"a">>], [id |-> 2, name |-> <<"b">>]}

\* a store with two tags, any associations and any topic categories
InitAggregates ==
  /\ comments = [c \in CommentIds |-> NewComment(1, c)]
  /\ topics \in
       {[t \in TopicIds |->
           [NewTopic(cat[t], <<"x">>, 0, 0, t) EXCEPT
              !.comments_count = ActiveComments(comments, t)]] :
          cat \in [TopicIds -> Categories]}
  /\ topic_likes = [k \in (TopicIds \cup {MissingTopicId}) \X UserIds |-> 0]
  /\ comment_likes = [k \in (CommentIds \cup {MissingCommentId}) \X UserIds |-> 0]
  /\ tags = SeedTags
  /\ tags_auto_increment = 3
  /\ topic_tags \in SUBSET (TopicIds \X {t.id : t \in SeedTags})
  /\ pc = [p \in Procs |-> "idle"]
  /\ call = [p \in Procs |-> NoCall]
  /\ conn = [p \in Procs |-> NoConn]
  /\ before = [p \in Procs |-> <<>>]
  /\ last = NoLast
  /\ failures = 0
  /\ errored = FALSE

NextAggregates ==
  \E p \in Procs :
    \/ Idle /\ Tag_getAll(p)
    \/ /\ Idle
       /\ \E id \in 1..MaxTagId : Tag_findById(p, id)
    \/ /\ Idle
       /\ \E name \in {<<"a">>, <<"b">>, <<"c">>} : Tag_findByName(p, name)
    \/ Idle /\ Category_getAll(p)
    \/ /\ Idle
       /\ \E id \in 1..3 : Category_findById(p, id)
    \/ /\ Idle
       /\ \E name \in Categories \cup {"c3"} : Category_findByName(p, name)
    \/ Idle /\ Topic_getList(p, NoOptions)
    \/ /\ Idle
       /\ \E id \in TopicIds : Topic_findById(p, id, 0)
    \/ /\ Idle
       /\ \E id \in TopicIds : Topic_delete(p, id)
    \/ /\ Idle
       /\ \E id \in CommentIds : Comment_delete(p, id)
    \/ Tag_getAll_select(p)
    \/ Tag_findById_select(p)
    \/ Tag_findByName_select(p)
    \/ Category_getAll_select(p)
    \/ Category_findById_select(p)
    \/ Category_findByName_select(p)
    \/ Topic_getList_query(p)
    \/ Topic_getList_count(p)
    \/ Topic_getList_getTopicTags(p)
    \/ Topic_findById_select(p)
    \/ Topic_findById_getTopicTags(p)
    \/ Topic_delete_update(p)
    \/ Comment_delete_select(p)
    \/ Comment_delete_update(p)
    \/ Comment_delete_recount(p)
    \/ Return(p)

SpecAggregates == InitAggregates /\ [][NextAggregates]_vars

\* ------------------------------------------------ listings in sort order
Sorts == {"undefined", "latest", "hot", "official", "newest"}
CreatedAts == 1..2

SortOptions ==
  {[NoOptions EXCEPT !.sort = so, !.category = cat, !.search = s] :
     so \in Sorts, cat \in {"", "c1"}, s \in {<<>>, <<"x">>}}

\* a store with any hot flags (official where not hot), creation times
\* (possibly equal) and like rows
InitSort ==
  /\ comments = [c \in CommentIds |-> NewComment(1, c)]
  /\ topic_likes \in LikeTables(TopicIds, MissingTopicId)
  /\ comment_likes = [k \in (CommentIds \cup {MissingCommentId}) \X UserIds |-> 0]
  /\ topics \in
       {[t \in TopicIds |->
           [NewTopic(IF t = 1 THEN "c2" ELSE "c1", IF t = 1 THEN <<"y">> ELSE <<"x">>,
                     hot[t], 1 - hot[t], created[t]) EXCEPT
              !.comments_count = ActiveComments(comments, t),
              !.likes_count = LiveLikes(topic_likes, t)]] :
          hot \in [TopicIds -> {0, 1}], created \in [TopicIds -> CreatedAts]}
  /\ InitRequests

NextSort ==
  \E p \in Procs :
    \/ /\ Idle
       /\ \E o \in SortOptions : Topic_getList(p, o)
    \/ Topic_getList_query(p)
    \/ Topic_getList_count(p)
    \/ Topic_getList_getTopicTags(p)
    \/ Return(p)

SpecSort == InitSort /\ [][NextSort]_vars

\* ------------------------------------------- concurrent like / unlike
\* requests in flight at the same time, one per connection of the pool
Likers == 1..NumLikers

InitConcurrent ==
  /\ comments = [c \in CommentIds |-> NewComment(1, c)]
  /\ topics = [t \in TopicIds |->
                 [NewTopic("c1", <<"x">>, 0, 0, t) EXCEPT
                    !.comments_count = ActiveComments(comments, t)]]
  /\ topic_likes = [k \in (TopicIds \cup {MissingTopicId}) \X UserIds |-> 0]
  /\ comment_likes = [k \in (CommentIds \cup {MissingCommentId}) \X UserIds |-> 0]
  /\ tags = {}
  /\ tags_auto_increment = 1
  /\ topic_tags = {}
  /\ pc = [p \in Likers |-> "idle"]
  /\ call = [p \in Likers |-> NoCall]
  /\ conn = [p \in Likers |-> NoConn]
  /\ before = [p \in Likers |-> <<>>]
  /\ last = NoLast
  /\ failures = 0
  /\ errored = FALSE

\* the entity the concurrent requests contend for
SharedId == 1

\* no other request in flight acts for this user
OnlyCallOf(p, userId) ==
  \A q \in Likers \ {p} : pc[q] = "idle" \/ call[q].userId # userId

\* the caller receives the result; nothing is remembered of the call but
\* whether it failed
Return_concurrent(p) ==
  /\ pc[p] = "done"
  /\ pc' = [pc EXCEPT ![p] = "idle"]
  /\ errored' = (errored \/ call[p].status = "error")
  /\ call' = [call EXCEPT ![p] = NoCall]
  /\ before' = [before EXCEPT ![p] = <<>>]
  /\ UNCHANGED <<likeVars, tagVars, failures, last>>

\* a request arrives while others are in flight
Arrive(p, op, id, userId, label) ==
  /\ pc[p] = "idle"
  /\ pc' = [pc EXCEPT ![p] = label]
  /\ call' = [call EXCEPT ![p] = NewCall(op, id, userId, <<>>)]
  /\ UNCHANGED <<likeVars, tagVars, histVars, failures>>

\* like/unlike requests of different users on one topic and one comment,
\* interleaved statement by statement
NextLikesConcurrent ==
  \E p \in Likers :
    \/ \E userId \in UserIds :
         /\ OnlyCallOf(p, userId)
         /\ \/ Arrive(p, "Topic.like", SharedId, userId, "Topic.like.select")
            \/ Arrive(p, "Topic.unlike", SharedId, userId, "Topic.unlike.delete")
    \/ \E userId \in UserIds :
         /\ OnlyCallOf(p, userId)
         /\ \/ Arrive(p, "Comment.like", SharedId, userId, "Comment.like.select")
            \/ Arrive(p, "Comment.unlike", SharedId, userId, "Comment.unlike.delete")
    \/ Topic_like_select(p)
    \/ Topic_like_insert(p)
    \/ Topic_unlike_delete(p)
    \/ Topic_getLikesCount_select(p)
    \/ Topic_getLikesCount_update(p)
    \/ Comment_like_select(p)
    \/ Comment_like_insert(p)
    \/ Comment_unlike_delete(p)
    \/ Comment_getLikesCount_select(p)
    \/ Comment_getLikesCount_update(p)
    \/ Return_concurrent(p)

SpecLikesConcurrent == InitConcurrent /\ [][NextLikesConcurrent]_vars

\* ------------------------------------ concurrent likes of the same user
\* like requests on one topic and one comment, interleaved statement by
\* statement; two requests in flight may act for the same user
NextLikesSameUser ==
  \E p \in Likers :
    \/ \E userId \in UserIds :
         Arrive(p, "Topic.like", SharedId, userId, "Topic.like.select")
    \/ \E userId \in UserIds :
         Arrive(p, "Comment.like", SharedId, userId, "Comment.like.select")
    \/ Topic_like_select(p)
    \/ Topic_like_insert(p)
    \/ Topic_getLikesCount_select(p)
    \/ Topic_getLikesCount_update(p)
    \/ Comment_like_select(p)
    \/ Comment_like_insert(p)
    \/ Comment_getLikesCount_select(p)
    \/ Comment_getLikesCount_update(p)
    \/ Return_concurrent(p)

SpecLikesSameUser == InitConcurrent /\ [][NextLikesSameUser]_vars

\* ------------------------------------------ concurrent tag synchronisation
\* connections of the pool that serve tag requests at the same time
Writers == 1..NumWriters

\* the tag table holds one tag; the contended topic has it or has no tag
SeedTag == [id |-> 1, name |-> <<"a">>]

InitTagsConcurrent ==
  /\ comments = [c \in CommentIds |-> NewComment(1, c)]
  /\ topics = [t \in TopicIds |->
                 [NewTopic("c1", <<"x">>, 0, 0, t) EXCEPT
                    !.comments_count = ActiveComments(comments, t)]]
  /\ topic_likes = [k \in (TopicIds \cup {MissingTopicId}) \X UserIds |-> 0]
  /\ comment_likes = [k \in (CommentIds \cup {MissingCommentId}) \X UserIds |-> 0]
  /\ tags = {SeedTag}
  /\ tags_auto_increment = 2
  /\ topic_tags \in {{}, {<<SharedId, SeedTag.id>>}}
  /\ pc = [p \in Writers |-> "idle"]
  /\ call = [p \in Writers |-> NoCall]
  /\ conn = [p \in Writers |-> NoConn]
  /\ before = [p \in Writers |-> <<>>]
  /\ last = NoLast
  /\ failures = 0
  /\ errored = FALSE

\* references to the seeded tag by id and by name, and to a name without a row
SyncRefValues == {NumRef(SeedTag.id), StrRef(SeedTag.name), StrRef(<<"b">>)}
SyncRefLists == UNION {[1..n -> SyncRefValues] : n \in 0..MaxSyncRefs}

\* every connection serves one addTagsToTopic call on the contended topic;
\* the calls are interleaved statement by statement
NextTagsConcurrent ==
  \E p \in Writers :
    \/ \E refs \in SyncRefLists : Tag_addTagsToTopic(p, SharedId, refs)
    \/ Tag_addTagsToTopic_getConnection(p)
    \/ Tag_addTagsToTopic_beginTransaction(p)
    \/ Tag_addTagsToTopic_delete(p)
    \/ Tag_addTagsToTopic_select(p)
    \/ Tag_addTagsToTopic_insertTag(p)
    \/ Tag_addTagsToTopic_insertTopicTag(p)
    \/ Tag_addTagsToTopic_commit(p)
    \/ Tag_addTagsToTopic_getTopicTags(p)
    \/ Tag_addTagsToTopic_rollback(p)

SpecTagsConcurrent == InitTagsConcurrent /\ [][NextTagsConcurrent]_vars

\* ------------------------------------- readers beside a tag synchronisation
\* two tags; the contended topic has the first
InitTagsReaders ==
  /\ comments = [c \in CommentIds |-> NewComment(1, c)]
  /\ topics = [t \in TopicIds |->
                 [NewTopic("c1", <<"x">>, 0, 0, t) EXCEPT
                    !.comments_count = ActiveComments(comments, t)]]
  /\ topic_likes = [k \in (TopicIds \cup {MissingTopicId}) \X UserIds |-> 0]
  /\ comment_likes = [k \in (CommentIds \cup {MissingCommentId}) \X UserIds |-> 0]
  /\ tags = SeedTags
  /\ tags_auto_increment = 3
  /\ topic_tags = {<<SharedId, 1>>}
  /\ pc = [p \in Writers |-> "idle"]
  /\ call = [p \in Writers |-> NoCall]
  /\ conn = [p \in Writers |-> NoConn]
  /\ before = [p \in Writers |-> <<>>]
  /\ last = NoLast
  /\ failures = 0
  /\ errored = FALSE

\* replacements of the topic's tags by another non-empty set
ReplacementRefLists ==
  {<<StrRef(<<"b">>)>>, <<NumRef(2), StrRef(<<"c">>)>>, <<NumRef(1), NumRef(2)>>}

\* every connection serves one call on the contended topic: a synchronisation,
\* Tag.getTopicTags or Topic.findById, interleaved statement by statement
NextTagsReaders ==
  \E p \in Writers :
    \/ \E refs \in ReplacementRefLists : Tag_addTagsToTopic(p, SharedId, refs)
    \/ Tag_addTagsToTopic_getConnection(p)
    \/ Tag_addTagsToTopic_beginTransaction(p)
    \/ Tag_addTagsToTopic_delete(p)
    \/ Tag_addTagsToTopic_select(p)
    \/ Tag_addTagsToTopic_insertTag(p)
    \/ Tag_addTagsToTopic_insertTopicTag(p)
    \/ Tag_addTagsToTopic_commit(p)
    \/ Tag_addTagsToTopic_getTopicTags(p)
    \/ Tag_addTagsToTopic_rollback(p)
    \/ Tag_getTopicTags(p, SharedId)
    \/ Tag_getTopicTags_select(p)
    \/ Topic_findById(p, SharedId, 0)
    \/ Topic_findById_select(p)
    \/ Topic_findById_getTopicTags(p)

SpecTagsReaders == InitTagsReaders /\ [][NextTagsReaders]_vars

\* ------------------------------------------- topic writes with their tags
\* the requests, and the calls of addTagsToTopic made inside them
TopicProcs == Procs \cup {Nested(p) : p \in Procs}

InitTopicWrites ==
  /\ comments = [c \in CommentIds |-> NewComment(1, c)]
  /\ topics = [t \in TopicIds |->
                 [NewTopic("c1", <<"x">>, 0, 0, t) EXCEPT
                    !.comments_count = ActiveComments(comments, t)]]
  /\ topic_likes = [k \in (TopicIds \cup {MissingTopicId}) \X UserIds |-> 0]
  /\ comment_likes = [k \in (CommentIds \cup {MissingCommentId}) \X UserIds |-> 0]
  /\ tags = {SeedTag}
  /\ tags_auto_increment = 2
  /\ topic_tags \in {{}, {<<SharedId, SeedTag.id>>}}
  /\ pc = [p \in TopicProcs |-> "idle"]
  /\ call = [p \in TopicProcs |-> NoCall]
  /\ conn = [p \in TopicProcs |-> NoConn]
  /\ before = [p \in TopicProcs |-> <<>>]
  /\ last = NoLast
  /\ failures = 0
  /\ errored = FALSE

MissingUserId == NumUsers + 1

\* topicData of Topic.create: every column given, the author known or not
CreateData ==
  {[NoData EXCEPT !.hasTitle = TRUE, !.title = <<"y">>,
                  !.hasContent = TRUE, !.content = <<"w">>,
                  !.hasCategory = TRUE, !.category = "c2",
                  !.authorId = a, !.hasTags = TRUE] :
     a \in {1, MissingUserId}}

\* updateData of Topic.update: any of title and category, with or without tags
UpdateData ==
  {[NoData EXCEPT !.hasTitle = ht, !.title = IF ht THEN <<"y">> ELSE <<>>,
                  !.hasCategory = hc, !.category = IF hc THEN "c2" ELSE "",
                  !.hasTags = tg] :
     ht \in BOOLEAN, hc \in BOOLEAN, tg \in BOOLEAN}

\* one Topic.create or Topic.update request on each store
NextTopicWrites ==
  \E p \in Procs :
    \/ /\ Idle
       /\ \E d \in CreateData, refs \in SyncRefLists : Topic_create(p, d, refs)
    \/ /\ Idle
       /\ \E id \in TopicIds \cup {MissingTopicId}, d \in UpdateData,
             refs \in SyncRefLists :
            /\ (~d.hasTags => refs = <<>>)
            /\ Topic_update(p, id, d, refs)
    \/ Topic_create_getConnection(p)
    \/ Topic_create_beginTransaction(p)
    \/ Topic_create_insert(p)
    \/ Topic_create_addTagsToTopic(p)
    \/ Topic_create_commit(p)
    \/ Topic_create_rollback(p)
    \/ Topic_update_getConnection(p)
    \/ Topic_update_beginTransaction(p)
    \/ Topic_update_update(p)
    \/ Topic_update_addTagsToTopic(p)
    \/ Topic_update_commit(p)
    \/ Topic_update_rollback(p)
    \/ Topic_findById_select(p)
    \/ Topic_findById_getTopicTags(p)
    \/ Tag_addTagsToTopic_getConnection(Nested(p))
    \/ Tag_addTagsToTopic_beginTransaction(Nested(p))
    \/ Tag_addTagsToTopic_delete(Nested(p))
    \/ Tag_addTagsToTopic_select(Nested(p))
    \/ Tag_addTagsToTopic_insertTag(Nested(p))
    \/ Tag_addTagsToTopic_insertTopicTag(Nested(p))
    \/ Tag_addTagsToTopic_commit(Nested(p))
    \/ Tag_addTagsToTopic_getTopicTags(Nested(p))
    \/ Tag_addTagsToTopic_rollback(Nested(p))

SpecTopicWrites == InitTopicWrites /\ [][NextTopicWrites]_vars

\* ------------------------------------------------- calls the store leaves
\* unanswered
\* the calls issued on a connection directly (connection.execute,
\* beginTransaction, commit, rollback, pool.getConnection): not wrapped in
\* Promise.race with the QUERY_TIMEOUT timer
UnboundedCalls ==
  {"Tag.addTagsToTopic.getConnection", "Tag.addTagsToTopic.beginTransaction",
   "Tag.addTagsToTopic.delete", "Tag.addTagsToTopic.select",
   "Tag.addTagsToTopic.insertTag", "Tag.addTagsToTopic.insertTopicTag",
   "Tag.addTagsToTopic.commit", "Tag.addTagsToTopic.rollback",
   "Topic.create.getConnection", "Topic.create.beginTransaction",
   "Topic.create.insert", "Topic.create.commit", "Topic.create.rollback",
   "Topic.update.getConnection", "Topic.update.beginTransaction",
   "Topic.update.update", "Topic.update.commit", "Topic.update.rollback"}

\* the store never answers the call p has issued; no timer settles the
\* awaited promise, the request stays where it is
Unanswered(p) ==
  /\ pc[p] \in UnboundedCalls
  /\ failures < MaxFailures
  /\ failures' = failures + 1
  /\ pc' = [pc EXCEPT ![p] = "unanswered"]
  /\ UNCHANGED <<likeVars, tagVars, histVars, call>>

\* the steps the event loop takes on its own: continuations of settled
\* promises, and the timers of Promise.race (the failing branch of a call on
\* the pool)
StepsOfRequests ==
  \E p \in Procs :
    \/ Topic_like_select(p)
    \/ Topic_like_insert(p)
    \/ Topic_getLikesCount_select(p)
    \/ Topic_getLikesCount_update(p)
    \/ Topic_create_getConnection(p)
    \/ Topic_create_beginTransaction(p)
    \/ Topic_create_insert(p)
    \/ Topic_create_addTagsToTopic(p)
    \/ Topic_create_commit(p)
    \/ Topic_create_rollback(p)
    \/ Topic_update_getConnection(p)
    \/ Topic_update_beginTransaction(p)
    \/ Topic_update_update(p)
    \/ Topic_update_addTagsToTopic(p)
    \/ Topic_update_commit(p)
    \/ Topic_update_rollback(p)
    \/ Topic_findById_select(p)
    \/ Topic_findById_getTopicTags(p)
    \/ Tag_addTagsToTopic_getConnection(Nested(p))
    \/ Tag_addTagsToTopic_beginTransaction(Nested(p))
    \/ Tag_addTagsToTopic_delete(Nested(p))
    \/ Tag_addTagsToTopic_select(Nested(p))
    \/ Tag_addTagsToTopic_insertTag(Nested(p))
    \/ Tag_addTagsToTopic_insertTopicTag(Nested(p))
    \/ Tag_addTagsToTopic_commit(Nested(p))
    \/ Tag_addTagsToTopic_getTopicTags(Nested(p))
    \/ Tag_addTagsToTopic_rollback(Nested(p))

\* one like, Topic.create or Topic.update request on each store; the store
\* may leave a call unanswered
NextTermination ==
  \/ \E p \in Procs :
       \/ \E topicId \in TopicIds, userId \in UserIds :
            Idle /\ Topic_like(p, topicId, userId)
       \/ \E d \in CreateData, refs \in SyncRefLists :
            Idle /\ Topic_create(p, d, refs)
       \/ \E id \in TopicIds, d \in UpdateData, refs \in SyncRefLists :
            /\ Idle
            /\ (~d.hasTags => refs = <<>>)
            /\ Topic_update(p, id, d, refs)
       \/ Unanswered(p)
       \/ Unanswered(Nested(p))
  \/ StepsOfRequests

SpecTermination ==
  InitTopicWrites /\ [][NextTermination]_vars /\ WF_vars(StepsOfRequests)

\* ------------------------------------------------------ counting the views
\* Topic.incrementViews requests served one after another
NextViews ==
  \E p \in Procs :
    \/ /\ Idle
       /\ \E id \in TopicIds \cup {MissingTopicId} : Topic_incrementViews(p, id)
    \/ Topic_incrementViews_update(p)
    \/ Return(p)

SpecViews == Init /\ [][NextViews]_vars

\* ------------------------------------------- tag names under concurrency
InitTagNames ==
  /\ comments = [c \in CommentIds |-> NewComment(1, c)]
  /\ topics = [t \in TopicIds |->
                 [NewTopic("c1", <<"x">>, 0, 0, t) EXCEPT
                    !.comments_count = ActiveComments(comments, t)]]
  /\ topic_likes = [k \in (TopicIds \cup {MissingTopicId}) \X UserIds |-> 0]
  /\ comment_likes = [k \in (CommentIds \cup {MissingCommentId}) \X UserIds |-> 0]
  /\ tags = {SeedTag}
  /\ tags_auto_increment = 2
  /\ topic_tags = {}
  /\ pc = [p \in Writers |-> "idle"]
  /\ call = [p \in Writers |-> NoCall]
  /\ conn = [p \in Writers |-> NoConn]
  /\ before = [p \in Writers |-> <<>>]
  /\ last = NoLast
  /\ failures = 0
  /\ errored = FALSE

\* the name of the seeded tag and a name without a row
TagNameValues == {SeedTag.name, <<"b">>}

\* every connection serves one call: Tag.create, or addTagsToTopic of a name
\* on some topic; the calls are interleaved statement by statement
NextTagNames ==
  \E p \in Writers :
    \/ \E name \in TagNameValues : Tag_create(p, name)
    \/ Tag_create_insert(p)
    \/ Tag_findById_select(p)
    \/ \E topicId \in TopicIds, name \in TagNameValues :
         Tag_addTagsToTopic(p, topicId, <<StrRef(name)>>)
    \/ Tag_addTagsToTopic_getConnection(p)
    \/ Tag_addTagsToTopic_beginTransaction(p)
    \/ Tag_addTagsToTopic_delete(p)
    \/ Tag_addTagsToTopic_select(p)
    \/ Tag_addTagsToTopic_insertTag(p)
    \/ Tag_addTagsToTopic_insertTopicTag(p)
    \/ Tag_addTagsToTopic_commit(p)
    \/ Tag_addTagsToTopic_getTopicTags(p)
    \/ Tag_addTagsToTopic_rollback(p)

SpecTagNames == InitTagNames /\ [][NextTagNames]_vars

\* ------------------------------------ Tag.delete beside tag synchronisation
\* two tags; the contended topic may have the first
InitTagDelete ==
  /\ comments = [c \in CommentIds |-> NewComment(1, c)]
  /\ topics = [t \in TopicIds |->
                 [NewTopic("c1", <<"x">>, 0, 0, t) EXCEPT
                    !.comments_count = ActiveComments(comments, t)]]
  /\ topic_likes = [k \in (TopicIds \cup {MissingTopicId}) \X UserIds |-> 0]
  /\ comment_likes = [k \in (CommentIds \cup {MissingCommentId}) \X UserIds |-> 0]
  /\ tags = SeedTags
  /\ tags_auto_increment = 3
  /\ topic_tags \in {{}, {<<SharedId, SeedTag.id>>}}
  /\ pc = [p \in Writers |-> "idle"]
  /\ call = [p \in Writers |-> NoCall]
  /\ conn = [p \in Writers |-> NoConn]
  /\ before = [p \in Writers |-> <<>>]
  /\ last = NoLast
  /\ failures = 0
  /\ errored = FALSE

\* tag sets that reference the first tag by id, alone or after another
\* reference
DeleteRefLists ==
  {<<NumRef(SeedTag.id)>>, <<NumRef(2), NumRef(SeedTag.id)>>}

\* every connection serves one call: Tag.delete of the first tag or of an id
\* without a row, or addTagsToTopic on some topic with references by id (no
\* INSERT INTO tags is reached); the calls are interleaved statement by
\* statement
NextTagDelete ==
  \E p \in Writers :
    \/ \E id \in {SeedTag.id, MaxTagId + 1} : Tag_delete(p, id)
    \/ Tag_delete_deleteTopicTags(p)
    \/ Tag_delete_deleteTag(p)
    \/ \E topicId \in TopicIds, refs \in DeleteRefLists :
         Tag_addTagsToTopic(p, topicId, refs)
    \/ Tag_addTagsToTopic_getConnection(p)
    \/ Tag_addTagsToTopic_beginTransaction(p)
    \/ Tag_addTagsToTopic_delete(p)
    \/ Tag_addTagsToTopic_select(p)
    \/ Tag_addTagsToTopic_insertTopicTag(p)
    \/ Tag_addTagsToTopic_commit(p)
    \/ Tag_addTagsToTopic_getTopicTags(p)
    \/ Tag_addTagsToTopic_rollback(p)

SpecTagDelete == InitTagDelete /\ [][NextTagDelete]_vars

\* ------------------------------------------- counters beside their tables
\* likes and comment deletions, any of whose statements may fail and leave a
\* stored counter behind its table, and the reads that report the counters
NextCounters ==
  \E p \in Procs :
    \/ /\ Idle
       /\ \E topicId \in TopicIds, userId \in UserIds : Topic_like(p, topicId, userId)
    \/ /\ Idle
       /\ \E commentId \in CommentIds, userId \in UserIds :
            Comment_like(p, commentId, userId)
    \/ /\ Idle
       /\ \E id \in CommentIds : Comment_delete(p, id)
    \/ Idle /\ Topic_getList(p, NoOptions)
    \/ /\ Idle
       /\ \E id \in TopicIds : Topic_findById(p, id, 0)
    \/ /\ Idle
       /\ \E t \in TopicIds : Comment_getList(p, [NoOptions EXCEPT !.topicId = NumRef(t)])
    \/ Topic_like_select(p)
    \/ Topic_like_insert(p)
    \/ Topic_getLikesCount_select(p)
    \/ Topic_getLikesCount_update(p)
    \/ Comment_like_select(p)
    \/ Comment_like_insert(p)
    \/ Comment_getLikesCount_select(p)
    \/ Comment_getLikesCount_update(p)
    \/ Comment_delete_select(p)
    \/ Comment_delete_update(p)
    \/ Comment_delete_recount(p)
    \/ Topic_getList_query(p)
    \/ Topic_getList_count(p)
    \/ Topic_getList_getTopicTags(p)
    \/ Topic_findById_select(p)
    \/ Topic_findById_getTopicTags(p)
    \/ Comment_getList_query(p)
    \/ Comment_getList_count(p)
    \/ Return(p)

SpecCounters == Init /\ [][NextCounters]_vars

\* --------------------------------------- like rows under any interleaving
\* the contended topic and comment liked by the first n users, for any n, the
\* counters in step with the rows
InitLikeRows ==
  /\ comments \in
       {[c \in CommentIds |->
           [NewComment(1, c) EXCEPT
              !.likes_count = IF c = SharedId THEN n ELSE 0]] :
          n \in 0..NumUsers}
  /\ comment_likes = [k \in (CommentIds \cup {MissingCommentId}) \X UserIds |->
                        IF k[1] \in CommentIds /\ k[1] = SharedId
                           /\ k[2] <= comments[k[1]].likes_count THEN 1 ELSE 0]
  /\ topics \in
       {[t \in TopicIds |->
           [NewTopic("c1", <<"x">>, 0, 0, t) EXCEPT
              !.comments_count = ActiveComments(comments, t),
              !.likes_count = IF t = SharedId THEN n ELSE 0]] :
          n \in 0..NumUsers}
  /\ topic_likes = [k \in (TopicIds \cup {MissingTopicId}) \X UserIds |->
                      IF k[1] \in TopicIds /\ k[1] = SharedId
                         /\ k[2] <= topics[k[1]].likes_count THEN 1 ELSE 0]
  /\ tags = {}
  /\ tags_auto_increment = 1
  /\ topic_tags = {}
  /\ pc = [p \in Likers |-> "idle"]
  /\ call = [p \in Likers |-> NoCall]
  /\ conn = [p \in Likers |-> NoConn]
  /\ before = [p \in Likers |-> <<>>]
  /\ last = NoLast
  /\ failures = 0
  /\ errored = FALSE

\* every connection serves one like or unlike request on the contended topic
\* or comment; the requests are interleaved statement by statement and may
\* act for the same user
NextLikeRows ==
  \E p \in Likers :
    \/ \E userId \in UserIds :
         \/ Arrive(p, "Topic.like", SharedId, userId, "Topic.like.select")
         \/ Arrive(p, "Topic.unlike", SharedId, userId, "Topic.unlike.delete")
    \/ \E userId \in UserIds :
         \/ Arrive(p, "Comment.like", SharedId, userId, "Comment.like.select")
         \/ Arrive(p, "Comment.unlike", SharedId, userId, "Comment.unlike.delete")
    \/ Topic_like_select(p)
    \/ Topic_like_insert(p)
    \/ Topic_unlike_delete(p)
    \/ Topic_getLikesCount_select(p)
    \/ Topic_getLikesCount_update(p)
    \/ Comment_like_select(p)
    \/ Comment_like_insert(p)
    \/ Comment_unlike_delete(p)
    \/ Comment_getLikesCount_select(p)
    \/ Comment_getLikesCount_update(p)

SpecLikeRows == InitLikeRows /\ [][NextLikeRows]_vars

\* -------------------------------------------- comment counts, interleaved
\* the first comment active or soft-deleted, the counters in step with the rows
InitComments ==
  /\ comments \in
       {[c \in CommentIds |->
           [NewComment(1, c) EXCEPT !.status = IF c = 1 THEN st ELSE "active"]] :
          st \in {"active", "deleted"}}
  /\ topics = [t \in TopicIds |->
                 [NewTopic("c1", <<"x">>, 0, 0, t) EXCEPT
                    !.comments_count = ActiveComments(comments, t)]]
  /\ topic_likes = [k \in (TopicIds \cup {MissingTopicId}) \X UserIds |-> 0]
  /\ comment_likes = [k \in (CommentIds \cup {MissingCommentId}) \X UserIds |-> 0]
  /\ tags = {}
  /\ tags_auto_increment = 1
  /\ topic_tags = {}
  /\ pc = [p \in Writers |-> "idle"]
  /\ call = [p \in Writers |-> NoCall]
  /\ conn = [p \in Writers |-> NoConn]
  /\ before = [p \in Writers |-> <<>>]
  /\ last = NoLast
  /\ failures = 0
  /\ errored = FALSE

\* every connection serves one Comment.create or Comment.delete request; the
\* requests are interleaved statement by statement
NextComments ==
  \E p \in Writers :
    \/ \E topicId \in TopicIds \cup {MissingTopicId} : Comment_create(p, topicId, 1)
    \/ \E id \in CommentIds \cup {MissingCommentId} : pc[p] = "idle" /\ Comment_delete(p, id)
    \/ Comment_create_insert(p)
    \/ Comment_create_recount(p)
    \/ Comment_findById_select(p)
    \/ Comment_delete_select(p)
    \/ Comment_delete_update(p)
    \/ Comment_delete_recount(p)

SpecComments == InitComments /\ [][NextComments]_vars

\* ------------------------------------------------ the pool under concurrent
\* topic writes
\* as many callers as the pool has connections, each with its nested call
PoolCallers == 1..PoolSize

PoolProcs == PoolCallers \cup {Nested(p) : p \in PoolCallers}

InitPool ==
  /\ comments = [c \in CommentIds |-> NewComment(1, c)]
  /\ topics = [t \in TopicIds |->
                 [NewTopic("c1", <<"x">>, 0, 0, t) EXCEPT
                    !.comments_count = ActiveComments(comments, t)]]
  /\ topic_likes = [k \in (TopicIds \cup {MissingTopicId}) \X UserIds |-> 0]
  /\ comment_likes = [k \in (CommentIds \cup {MissingCommentId}) \X UserIds |-> 0]
  /\ tags = {SeedTag}
  /\ tags_auto_increment = 2
  /\ topic_tags = {}
  /\ pc = [p \in PoolProcs |-> "idle"]
  /\ call = [p \in PoolProcs |-> NoCall]
  /\ conn = [p \in PoolProcs |-> NoConn]
  /\ before = [p \in PoolProcs |-> <<>>]
  /\ last = NoLast
  /\ failures = 0
  /\ errored = FALSE

\* Topic.create and Topic.update calls with tags, started concurrently, one by
\* each caller
NextPool ==
  \E p \in PoolCallers :
    \/ \E d \in {x \in CreateData : x.authorId = 1}, refs \in SyncRefLists :
         Topic_create(p, d, refs)
    \/ \E id \in TopicIds, refs \in SyncRefLists :
         Topic_update(p, id, [NoData EXCEPT !.hasTags = TRUE], refs)
    \/ Topic_create_getConnection(p)
    \/ Topic_create_beginTransaction(p)
    \/ Topic_create_insert(p)
    \/ Topic_create_addTagsToTopic(p)
    \/ Topic_create_commit(p)
    \/ Topic_create_rollback(p)
    \/ Topic_update_getConnection(p)
    \/ Topic_update_beginTransaction(p)
    \/ Topic_update_update(p)
    \/ Topic_update_addTagsToTopic(p)
    \/ Topic_update_commit(p)
    \/ Topic_update_rollback(p)
    \/ Topic_findById_select(p)
    \/ Topic_findById_getTopicTags(p)
    \/ Tag_addTagsToTopic_getConnection(Nested(p))
    \/ Tag_addTagsToTopic_beginTransaction(Nested(p))
    \/ Tag_addTagsToTopic_delete(Nested(p))
    \/ Tag_addTagsToTopic_select(Nested(p))
    \/ Tag_addTagsToTopic_insertTag(Nested(p))
    \/ Tag_addTagsToTopic_insertTopicTag(Nested(p))
    \/ Tag_addTagsToTopic_commit(Nested(p))
    \/ Tag_addTagsToTopic_getTopicTags(Nested(p))
    \/ Tag_addTagsToTopic_rollback(Nested(p))

SpecPool == InitPool /\ [][NextPool]_vars

\* a caller that holds a connection while its nested call waits for the pool,
\* which has none free
HoldsAndWaits(p) ==
  /\ conn[p].held > 0
  /\ pc[Nested(p)] = "Tag.addTagsToTopic.getConnection"
  /\ FreeConnections = 0

\* C38: a Topic.create or Topic.update call with tags never holds one pooled
\* connection while it waits for another, so no state is reachable in which
\* every connection of the pool is held by a call waiting for a further one
C38_NoHoldAndWait ==
  ~ \A p \in PoolCallers : HoldsAndWaits(p)

\* ======================================================== like / unlike
\* number of rows of a likes table that reference the entity
LikeRows(table, id) ==
  SumOver(table, {k \in DOMAIN table : k[1] = id})

NoCallRunning == \A q \in Procs : pc[q] \in {"idle", "done"}
NoCallFailed == ~errored /\ \A q \in Procs : call[q].status # "error"

AtDone(p, op) == pc[p] = "done" /\ call[p].op = op

\* the call at its end follows a returned, successful call of operation op
\* on the same entity by the same user
Follows(p, op) ==
  /\ last.op = op
  /\ last.status = "ok"
  /\ last.id = call[p].id
  /\ last.userId = call[p].userId

\* C1: after non-overlapping like/unlike calls that all completed without
\* error, likes_count of every topic and of every comment equals the number
\* of topic_likes / comment_likes rows that reference it.
C1_LikesCountEqualsRows ==
  (NoCallRunning /\ NoCallFailed) =>
    /\ \A t \in DOMAIN topics : topics[t].likes_count = LikeRows(topic_likes, t)
    /\ \A c \in DOMAIN comments : comments[c].likes_count = LikeRows(comment_likes, c)

C1_Witness ==
  /\ Idle /\ ~errored
  /\ last = NoLast
  /\ topics[1].likes_count = 2
  /\ comments[1].likes_count = 1

LikeContract(p, table, snap, entityIds) ==
  LET k == <<call[p].id, call[p].userId>> IN
  IF snap[k] > 0
  THEN /\ table = snap
       /\ call[p].status = "error" => call[p].error = "store"
       /\ call[p].status = "ok" => call[p].ret = LikeRows(table, call[p].id)
  ELSE /\ call[p].status = "ok" =>
            /\ table = [snap EXCEPT ![k] = 1]
            /\ call[p].ret = LikeRows(table, call[p].id)
       /\ (call[p].status = "error" /\ call[p].id \in entityIds) => call[p].error = "store"

\* C3: like(e,u) with the row present adds no row, raises no error and
\* returns the number of like rows of e; with the row absent it inserts
\* exactly one row for (e,u) and returns the new count (Topic and Comment).
C3_LikeIdempotentInsert ==
  \A p \in Procs :
    /\ AtDone(p, "Topic.like") =>
         /\ LikeContract(p, topic_likes, before[p].topic_likes, DOMAIN topics)
         /\ comment_likes = before[p].comment_likes
    /\ AtDone(p, "Comment.like") =>
         /\ LikeContract(p, comment_likes, before[p].comment_likes, DOMAIN comments)
         /\ topic_likes = before[p].topic_likes

C3_Witness ==
  \E p \in Procs :
    /\ AtDone(p, "Comment.like") /\ call[p].status = "ok"
    /\ before[p].comment_likes[<<call[p].id, call[p].userId>>] = 1
    /\ call[p].ret = 2
    /\ Follows(p, "Comment.like") /\ ~last.likedBefore

UnlikeContract(p, table, snap) ==
  LET k == <<call[p].id, call[p].userId>> IN
  /\ call[p].status = "error" => call[p].error = "store"
  /\ call[p].status = "ok" =>
       /\ table = [snap EXCEPT ![k] = 0]
       /\ call[p].ret = LikeRows(table, call[p].id)
  /\ snap[k] = 0 => table = snap
  /\ \A j \in DOMAIN snap \ {k} : table[j] = snap[j]

\* C4: unlike(e,u) removes exactly the row of (e,u) when it exists, changes
\* no like row and raises no error when it does not, returns the number of
\* like rows of e after the call, and leaves every other pair's rows alone.
C4_UnlikeRemovesOnlyItsRow ==
  \A p \in Procs :
    /\ AtDone(p, "Topic.unlike") =>
         /\ UnlikeContract(p, topic_likes, before[p].topic_likes)
         /\ comment_likes = before[p].comment_likes
    /\ AtDone(p, "Comment.unlike") =>
         /\ UnlikeContract(p, comment_likes, before[p].comment_likes)
         /\ topic_likes = before[p].topic_likes

C4_Witness ==
  \E p \in Procs :
    /\ AtDone(p, "Topic.unlike") /\ call[p].status = "ok"
    /\ LikeRows(before[p].topic_likes, call[p].id) = 2
    /\ call[p].ret = 1
    /\ LikeRows(comment_likes, 1) = 1

\* likesCount of the entity of the call at its end: the returned value, the
\* like rows and the stored column all equal n
LikesCountIs(p, n) ==
  /\ call[p].ret = n
  /\ IF call[p].op \in {"Topic.like", "Topic.unlike"}
     THEN /\ LikeRows(topic_likes, call[p].id) = n
          /\ call[p].id \in DOMAIN topics => topics[call[p].id].likes_count = n
     ELSE /\ LikeRows(comment_likes, call[p].id) = n
          /\ call[p].id \in DOMAIN comments => comments[call[p].id].likes_count = n

UnlikeAfterLike(p) ==
  /\ pc[p] = "done" /\ call[p].status = "ok"
  /\ \/ call[p].op = "Topic.unlike" /\ Follows(p, "Topic.like")
     \/ call[p].op = "Comment.unlike" /\ Follows(p, "Comment.like")

\* C5 as stated: from every starting state, like(e,u) followed immediately
\* by unlike(e,u) leaves likesCount of e at its value before either call.
C5_Original ==
  \A p \in Procs : UnlikeAfterLike(p) => LikesCountIs(p, last.rowsBefore)

\* C5: from every starting state in which (e,u) has no like row, like(e,u)
\* followed immediately by unlike(e,u) leaves likesCount of e at its value
\* before either call.
C5_LikeThenUnlikeRestores ==
  \A p \in Procs :
    (UnlikeAfterLike(p) /\ ~last.likedBefore) => LikesCountIs(p, last.rowsBefore)

C5_Witness ==
  \E p \in Procs :
    /\ UnlikeAfterLike(p) /\ ~last.likedBefore
    /\ call[p].op = "Topic.unlike" /\ call[p].ret = 1

LikeAfterLike(p) ==
  /\ pc[p] = "done"
  /\ \/ call[p].op = "Topic.like" /\ Follows(p, "Topic.like")
     \/ call[p].op = "Comment.like" /\ Follows(p, "Comment.like")

\* C6 as stated: from every starting state, like(e,u) twice in a row leaves
\* likesCount of e exactly 1 above its value before the first call.
C6_Original ==
  \A p \in Procs :
    (LikeAfterLike(p) /\ call[p].status = "ok") => LikesCountIs(p, last.rowsBefore + 1)

\* C6: from every starting state in which (e,u) has no like row, like(e,u)
\* twice in a row raises no error and leaves likesCount of e exactly 1 above
\* its value before the first call, not 2.
C6_LikeTwiceCountsOnce ==
  \A p \in Procs :
    (LikeAfterLike(p) /\ ~last.likedBefore) =>
      /\ call[p].status = "error" => call[p].error = "store"
      /\ call[p].status = "ok" => LikesCountIs(p, last.rowsBefore + 1)

C6_Witness ==
  \E p \in Procs :
    /\ LikeAfterLike(p) /\ ~last.likedBefore /\ call[p].status = "ok"
    /\ call[p].op = "Comment.like" /\ call[p].ret = 1


\* ===================================================== tag synchronisation
\* ids of the tags associated with the topic
Assoc(rows, topicId) == {r[2] : r \in {x \in rows : x[1] = topicId}}

\* ids of the tag rows a reference denotes: the row with that id when the
\* reference is numeric, the row with that name otherwise
Resolve(ref, tagRows) ==
  IF IsNumericRef(ref)
  THEN {t.id : t \in {x \in tagRows : x.id = ToNumber(ref)}}
  ELSE {t.id : t \in {x \in tagRows : x.name = ref.str}}

ResolveAll(refs, tagRows) == UNION {Resolve(refs[j], tagRows) : j \in 1..Len(refs)}

SyncDone(p) == AtDone(p, "Tag.addTagsToTopic")

\* C2: after a successful addTagsToTopic(topicId, tags) the topic is
\* associated with exactly the tags the references resolve to: no earlier
\* association outside that set remains, no tag outside it is associated.
C2_TagSetIsExactlyThePassedSet ==
  \A p \in Procs :
    (SyncDone(p) /\ call[p].status = "ok") =>
      /\ Assoc(topic_tags, call[p].id) = ResolveAll(call[p].tags, tags)
      /\ {t.id : t \in call[p].retTags} = ResolveAll(call[p].tags, tags)
      /\ \A t \in TopicIds \ {call[p].id} :
           Assoc(topic_tags, t) = Assoc(before[p].topic_tags, t)

C2_Witness ==
  \E p \in Procs :
    /\ SyncDone(p) /\ call[p].status = "ok"
    /\ Assoc(before[p].topic_tags, call[p].id) = {1, 2}
    /\ Assoc(topic_tags, call[p].id) = {2}

\* the reference list names some tag more than once
HasDuplicateRef(refs) ==
  \E j, k \in 1..Len(refs) : j < k /\ refs[j] = refs[k]

\* C7: a call whose list names the same tag more than once completes
\* successfully and leaves the topic associated with each distinct tag
\* exactly once; the duplicate does not fail the call.
C7_DuplicateRefsCollapse ==
  \A p \in Procs :
    (/\ SyncDone(p)
     /\ HasDuplicateRef(call[p].tags)
     /\ call[p].id \in DOMAIN topics
     /\ call[p].error # "store") =>
      /\ call[p].status = "ok"
      /\ Assoc(topic_tags, call[p].id) = ResolveAll(call[p].tags, tags)

\* C8: calling addTagsToTopic twice in a row with the same list leaves the
\* topic's associations and the tags table after the second call equal to
\* what they were after the first call.
C8_SyncTagsIdempotent ==
  \A p \in Procs :
    (/\ SyncDone(p)
     /\ call[p].repeat
     /\ call[p].firstError # "store"
     /\ call[p].error # "store") =>
      /\ topic_tags = before[p].topic_tags
      /\ tags = before[p].tags

C8_Witness ==
  \E p \in Procs :
    /\ SyncDone(p) /\ call[p].repeat /\ call[p].status = "ok"
    /\ call[p].firstError = "none"
    /\ Cardinality(Assoc(topic_tags, call[p].id)) = 2
    /\ Cardinality(tags) = 2

FailingSteps ==
  {"beginTransaction", "delete", "select", "insertTag", "insertTopicTag", "commit"}

\* C9: if the delete, a tag lookup, a tag insert, an association insert or
\* the commit of addTagsToTopic fails, the call raises the error and the
\* committed store is as before the call: the topic keeps its previous
\* associations and no tag row created by the failed call survives.
C9_FailureRollsBackEverything ==
  \A p \in Procs :
    (SyncDone(p) /\ call[p].failedAt \in FailingSteps) =>
      /\ call[p].status = "error"
      /\ topic_tags = before[p].topic_tags
      /\ tags = before[p].tags
      /\ conn[p] = NoConn

C9_Witness ==
  \E p \in Procs :
    /\ SyncDone(p) /\ call[p].failedAt = "commit"
    /\ Assoc(before[p].topic_tags, call[p].id) = {1}
    /\ tags_auto_increment > before[p].tags_auto_increment
    /\ Len(call[p].addedTags) = 2

\* names among the references (the references that are not numeric)
RefNames(refs) == {refs[j].str : j \in {k \in 1..Len(refs) : ~IsNumericRef(refs[k])}}

NamedRows(tagRows, name) == {t \in tagRows : t.name = name}

\* C10: a name reference without a tag row makes exactly one new tag row with
\* that name and a fresh id, which is associated; a name reference with a tag
\* row reuses that row and creates none; [1, "newtag"] with tag 1 present and
\* "newtag" absent yields a two-element tag list and a new row "newtag".
C10_NamesCreateOrReuse ==
  \A p \in Procs :
    SyncDone(p) =>
      /\ call[p].status = "ok" =>
           /\ \A n \in RefNames(call[p].tags) :
                /\ Cardinality(NamedRows(tags, n)) = 1
                /\ NamedRows(before[p].tags, n) # {} =>
                     NamedRows(tags, n) = NamedRows(before[p].tags, n)
                /\ NamedRows(before[p].tags, n) = {} =>
                     \A t \in NamedRows(tags, n) :
                       /\ t.id >= before[p].tags_auto_increment
                       /\ t.id \notin {x.id : x \in before[p].tags}
                /\ \A t \in NamedRows(tags, n) : <<call[p].id, t.id>> \in topic_tags
           /\ {t.name : t \in tags \ before[p].tags} =
                {n \in RefNames(call[p].tags) : NamedRows(before[p].tags, n) = {}}
           /\ before[p].tags \subseteq tags
      /\ (/\ Len(call[p].tags) = 2
          /\ call[p].tags[1] = NumRef(1)
          /\ ~IsNumericRef(call[p].tags[2])
          /\ call[p].id \in DOMAIN topics
          /\ call[p].error # "store"
          /\ \E t \in before[p].tags : t.id = 1 /\ t.name # call[p].tags[2].str) =>
           /\ call[p].status = "ok"
           /\ Cardinality(call[p].retTags) = 2

C10_Witness ==
  \E p \in Procs :
    /\ SyncDone(p) /\ call[p].status = "ok"
    /\ call[p].tags = <<NumRef(1), StrRef(<<"b">>)>>
    /\ before[p].tags = {[id |-> 1, name |-> <<"a">>]}
    /\ Cardinality(call[p].retTags) = 2
    /\ [id |-> 3, name |-> <<"b">>] \in tags

\* positions of the numeric references whose id matches no tag row at any
\* moment of the call: no committed row and no row the call itself can create
Unmatched(p) ==
  {j \in 1..Len(call[p].tags) :
     /\ IsNumericRef(call[p].tags[j])
     /\ ToNumber(call[p].tags[j]) \notin {t.id : t \in before[p].tags}
     /\ ToNumber(call[p].tags[j]) \notin
          before[p].tags_auto_increment ..
            (before[p].tags_auto_increment + NameRefs(call[p].tags) - 1)}

Matched(p) == (1..Len(call[p].tags)) \ Unmatched(p)

\* the other references are names, each given once
OthersAreDistinctNames(p) ==
  /\ \A j \in Matched(p) : ~IsNumericRef(call[p].tags[j])
  /\ \A j, k \in Matched(p) : j # k => call[p].tags[j] # call[p].tags[k]

\* C11: a numeric reference whose id matches no tag row is skipped: no
\* association and no tag row is made for it, it does not fail the call, and
\* the other references are still resolved and associated.
C11_UnknownIdIsSkipped ==
  \A p \in Procs :
    (SyncDone(p) /\ Unmatched(p) # {}) =>
      /\ (/\ OthersAreDistinctNames(p)
          /\ call[p].id \in DOMAIN topics
          /\ call[p].error # "store") => call[p].status = "ok"
      /\ call[p].status = "ok" =>
           /\ Assoc(topic_tags, call[p].id) =
                UNION {Resolve(call[p].tags[j], tags) : j \in Matched(p)}
           /\ \A j \in Matched(p) : Resolve(call[p].tags[j], tags) # {}
           /\ \A j \in Unmatched(p) :
                /\ ToNumber(call[p].tags[j]) \notin {t.id : t \in tags}
                /\ <<call[p].id, ToNumber(call[p].tags[j])>> \notin topic_tags
           /\ {t.name : t \in tags \ before[p].tags} \subseteq RefNames(call[p].tags)

C11_Witness ==
  \E p \in Procs :
    /\ SyncDone(p) /\ call[p].status = "ok"
    /\ call[p].tags = <<StrRef(<<"a">>), NumRef(1), StrRef(<<"b">>)>>
    /\ Unmatched(p) = {2}
    /\ Cardinality(call[p].retTags) = 2

\* ============================================================== listings
ListDone(p, op) == AtDone(p, op) /\ call[p].error # "store"

\* the page arithmetic of the call gave a usable LIMIT / OFFSET
PagingUsable(p) == LimitClauseParses(call[p].limitInt, call[p].offset)

\* the topic carries the tag the filter names, by id or by name
HasTag(t, tag) ==
  \E g \in tags :
    /\ <<t, g.id>> \in topic_tags
    /\ IF IsNumericRef(tag) THEN g.id = ToNumber(tag) ELSE g.name = tag.str

\* the predicate of a topic listing, ignoring pagination
Satisfies(t, o) ==
  /\ topics[t].status = "active"
  /\ (o.category # "" => topics[t].category = o.category)
  /\ (Truthy(o.tag) => HasTag(t, o.tag))
  /\ (Len(o.search) > 0 =>
        \/ Like(topics[t].title, o.search)
        \/ Like(topics[t].content, o.search))

\* C12: for every combination of the filters category, tag, search and
\* viewer id, Topic.getList returns a totalCount equal to the number of
\* distinct active topics that satisfy the predicate; Comment.getList
\* returns the number of active comments of the topic.
C12_TotalCountMatchesPredicate ==
  \A p \in Procs :
    /\ (ListDone(p, "Topic.getList") /\ PagingUsable(p)) =>
         /\ call[p].status = "ok"
         /\ call[p].totalCount =
              Cardinality({t \in DOMAIN topics : Satisfies(t, call[p].options)})
    /\ (ListDone(p, "Comment.getList") /\ PagingUsable(p)) =>
         /\ call[p].status = "ok"
         /\ call[p].totalCount =
              Cardinality({c \in DOMAIN comments :
                 /\ comments[c].status = "active"
                 /\ comments[c].topic_id = ToNumber(call[p].options.topicId)})

IsListing(p) == call[p].op \in {"Topic.getList", "Comment.getList"}

\* a listing call has returned its result
Listed(p) == pc[p] = "done" /\ IsListing(p) /\ call[p].status = "ok"

\* C13: every result of Topic.getList and Comment.getList with pageSize >= 1
\* has pageCount = ceil(totalCount / pageSize), i.e. pageCount is the least
\* number of pages of pageSize items that hold totalCount items, and returns
\* at most pageSize items.
C13_PageCountIsCeiling ==
  \A p \in Procs :
    (Listed(p) /\ call[p].limitInt.kind = "int" /\ call[p].limitInt.n >= 1) =>
      /\ call[p].totalCount >= 0
      /\ call[p].pageCount.kind = "int"
      /\ call[p].pageCount.n * call[p].limitInt.n >= call[p].totalCount
      /\ (call[p].pageCount.n - 1) * call[p].limitInt.n < call[p].totalCount
      /\ Len(call[p].items) <= call[p].limitInt.n

C13_Witness ==
  \E p \in Procs :
    /\ Listed(p) /\ call[p].op = "Topic.getList"
    /\ call[p].totalCount = 2 /\ call[p].limitInt = Num(1)
    /\ call[p].pageCount = Num(2) /\ Len(call[p].items) = 1

\* C14: whatever page and limit the caller supplies (0, negative, non-numeric
\* or missing), a listing call works with an integer page >= 1, an integer
\* pageSize >= 1 and the offset (page - 1) * pageSize, which is never negative.
C14_PagingCoerced ==
  \A p \in Procs :
    (pc[p] # "idle" /\ IsListing(p)) =>
      /\ call[p].pageInt.kind = "int" /\ call[p].pageInt.n >= 1
      /\ call[p].limitInt.kind = "int" /\ call[p].limitInt.n >= 1
      /\ call[p].offset = Num((call[p].pageInt.n - 1) * call[p].limitInt.n)
      /\ call[p].offset.n >= 0

\* the like table behind the items of a call
LikesOf(p) == IF call[p].op = "Comment.getList" THEN comment_likes ELSE topic_likes

\* C15: without a viewer id every item returned by Topic.getList,
\* Comment.getList and Topic.findById has isLiked = false, whatever like rows
\* exist; with a viewer id a listing reports isLiked = true for an item
\* exactly when a like row for (item, viewer) exists.
C15_IsLikedFollowsViewer ==
  \A p \in Procs :
    /\ (/\ pc[p] = "done" /\ call[p].status = "ok"
        /\ call[p].op \in {"Topic.getList", "Comment.getList", "Topic.findById"}
        /\ call[p].userId = 0) =>
         \A j \in 1..Len(call[p].items) : ~call[p].items[j].isLiked
    /\ (Listed(p) /\ call[p].userId # 0) =>
         \A j \in 1..Len(call[p].items) :
           call[p].items[j].isLiked <=>
             LikesOf(p)[<<call[p].items[j].id, call[p].userId>>] > 0

C15_Witness ==
  \E p \in Procs :
    /\ Listed(p) /\ call[p].op = "Topic.getList" /\ call[p].userId = 1
    /\ \E j, k \in 1..Len(call[p].items) :
         /\ call[p].items[j].isLiked
         /\ ~call[p].items[k].isLiked
         /\ topic_likes[<<call[p].items[k].id, 2>>] > 0

Returned(p, op) == AtDone(p, op) /\ call[p].status = "ok"

\* no result shows a soft-deleted row, and a successful delete marks the row
DeletedHidden ==
  \A p \in Procs :
    /\ Returned(p, "Topic.getList") =>
         \A j \in 1..Len(call[p].items) :
           topics[call[p].items[j].id].status # "deleted"
    /\ Returned(p, "Comment.getList") =>
         \A j \in 1..Len(call[p].items) :
           comments[call[p].items[j].id].status # "deleted"
    /\ Returned(p, "Topic.findById") =>
         /\ \A j \in 1..Len(call[p].items) :
              topics[call[p].items[j].id].status # "deleted"
         /\ (/\ call[p].userId = 0
             /\ call[p].id \in DOMAIN topics
             /\ topics[call[p].id].status = "deleted") => ~call[p].found
    /\ (/\ Returned(p, "Comment.findById")
        /\ call[p].id \in DOMAIN comments
        /\ comments[call[p].id].status = "deleted") => ~call[p].found
    /\ (Returned(p, "Topic.delete") /\ call[p].ret > 0) =>
         call[p].id \in DOMAIN topics /\ topics[call[p].id].status = "deleted"
    /\ (Returned(p, "Comment.delete") /\ call[p].ret > 0) =>
         call[p].id \in DOMAIN comments /\ comments[call[p].id].status = "deleted"

\* a step neither reactivates nor removes a soft-deleted row
DeletedStays ==
  /\ \A t \in DOMAIN topics :
       topics[t].status = "deleted" =>
         t \in DOMAIN topics' /\ topics'[t].status = "deleted"
  /\ \A c \in DOMAIN comments :
       comments[c].status = "deleted" =>
         c \in DOMAIN comments' /\ comments'[c].status = "deleted"

\* C16: once Topic.delete(id) or Comment.delete(id) has succeeded the row is
\* marked deleted, and from then on it is never returned by a listing,
\* findById(id) returns null, and no step reactivates or removes the row.
C16_DeletedStaysHidden == [](DeletedHidden) /\ [][DeletedStays]_vars

C16_Witness ==
  \E p \in Procs :
    /\ Returned(p, "Topic.getList")
    /\ topics[1].status = "deleted"
    /\ call[p].totalCount = NumTopics - 1
    /\ Len(call[p].items) = NumTopics - 1
    /\ comments[1].status = "deleted"

\* C17: soft-deleted rows are left out of every count aggregate: the
\* commentsCount of a returned topic counts its active comments only, and the
\* topicsCount of a returned tag or category counts active topics only.
C17_AggregatesSkipDeleted ==
  \A p \in Procs :
    /\ (Returned(p, "Topic.getList") \/ Returned(p, "Topic.findById")) =>
         \A j \in 1..Len(call[p].items) :
           call[p].items[j].commentsCount =
             Cardinality({c \in DOMAIN comments :
                /\ comments[c].topic_id = call[p].items[j].id
                /\ comments[c].status # "deleted"})
    /\ (\/ Returned(p, "Tag.getAll") \/ Returned(p, "Tag.findById")
        \/ Returned(p, "Tag.findByName")) =>
         \A r \in call[p].rows :
           r.topicsCount =
             Cardinality({t \in DOMAIN topics :
                <<t, r.id>> \in topic_tags /\ topics[t].status # "deleted"})
    /\ (\/ Returned(p, "Category.getAll") \/ Returned(p, "Category.findById")
        \/ Returned(p, "Category.findByName")) =>
         \A r \in call[p].rows :
           r.topicsCount =
             Cardinality({t \in DOMAIN topics :
                topics[t].category = r.name /\ topics[t].status # "deleted"})

C17_Witness ==
  \E p \in Procs :
    /\ Returned(p, "Tag.findByName")
    /\ \E r \in call[p].rows :
         /\ r.topicsCount = 1
         /\ Cardinality({t \in DOMAIN topics : <<t, r.id>> \in topic_tags}) = 2

\* the ids of the returned items, in order
ItemIds(p) == [j \in 1..Len(call[p].items) |-> call[p].items[j].id]

\* topic a must come before topic b under sort = hot
HotBefore(a, b) ==
  \/ topics[a].is_hot > topics[b].is_hot
  \/ /\ topics[a].is_hot = topics[b].is_hot
     /\ LikeRows(topic_likes, a) > LikeRows(topic_likes, b)
  \/ /\ topics[a].is_hot = topics[b].is_hot
     /\ LikeRows(topic_likes, a) = LikeRows(topic_likes, b)
     /\ topics[a].created_at > topics[b].created_at

\* C18: with sort = hot the returned topics are ordered by descending is_hot,
\* ties by descending number of likes, remaining ties by descending creation
\* time; T1(created 1, not hot, 2 likes) and T2(created 2, hot, 1 like) come
\* back as [T2, T1].
C18_HotOrder ==
  \A p \in Procs :
    (Returned(p, "Topic.getList") /\ call[p].options.sort = "hot") =>
      /\ \A j, k \in 1..Len(call[p].items) :
           j < k => ~HotBefore(call[p].items[k].id, call[p].items[j].id)
      /\ (/\ call[p].options.category = "" /\ call[p].options.search = <<>>
          /\ NumTopics = 2
          /\ topics[1].created_at = 1 /\ topics[1].is_hot = 0
          /\ LikeRows(topic_likes, 1) = 2
          /\ topics[2].created_at = 2 /\ topics[2].is_hot = 1
          /\ LikeRows(topic_likes, 2) = 1) => ItemIds(p) = <<2, 1>>

C18_Witness ==
  \E p \in Procs :
    /\ Returned(p, "Topic.getList") /\ call[p].options.sort = "hot"
    /\ Len(call[p].items) >= 2
    /\ topics[call[p].items[1].id].is_hot = topics[call[p].items[2].id].is_hot
    /\ LikeRows(topic_likes, call[p].items[1].id) = 2
    /\ LikeRows(topic_likes, call[p].items[2].id) = 1
    /\ topics[call[p].items[1].id].created_at < topics[call[p].items[2].id].created_at

\* C19: a sort value other than latest, hot or official returns the same
\* items in the same order as sort = latest (descending creation time) for
\* every filter combination.
C19_UnknownSortIsLatest ==
  \A p \in Procs :
    (/\ Returned(p, "Topic.getList")
     /\ call[p].options.sort \notin {"latest", "hot", "official"}) =>
      /\ call[p].items =
           SelectTopics([call[p].options EXCEPT !.sort = "latest"],
                        call[p].limitInt, call[p].offset)
      /\ \A j, k \in 1..Len(call[p].items) :
           j < k => topics[call[p].items[j].id].created_at >=
                      topics[call[p].items[k].id].created_at
      /\ {call[p].items[j].id : j \in 1..Len(call[p].items)} =
           {t \in DOMAIN topics : Satisfies(t, call[p].options)}

C19_Witness ==
  \E p \in Procs :
    /\ Returned(p, "Topic.getList") /\ call[p].options.sort = "newest"
    /\ Len(call[p].items) >= 2
    /\ topics[call[p].items[1].id].created_at > topics[call[p].items[2].id].created_at
    /\ topics[call[p].items[1].id].is_hot < topics[call[p].items[2].id].is_hot

\* every request has completed and none of them failed
AllSettled ==
  /\ \A q \in DOMAIN pc : pc[q] \in {"idle", "done"}
  /\ ~errored
  /\ \A q \in DOMAIN pc : call[q].status # "error"

\* C20: when like/unlike calls of different users on the same entity run
\* concurrently, interleaved statement by statement, then once all of them
\* have completed the stored likes_count of every entity equals the number
\* of its like rows.
C20_ConcurrentCountSettles ==
  AllSettled =>
    /\ \A t \in DOMAIN topics : topics[t].likes_count = LikeRows(topic_likes, t)
    /\ \A c \in DOMAIN comments : comments[c].likes_count = LikeRows(comment_likes, c)

\* ==================================================== concurrency, failures
\* the likes table and the entity a like request works on
LikeTableOf(p) ==
  IF call[p].op = "Topic.like" THEN topic_likes ELSE comment_likes

\* C21: when two like(e,u) calls for the same entity and the same user run
\* concurrently, neither is refused by the store's uniqueness constraint (the
\* later one is the already-liked no-op), and a call that completed leaves
\* exactly one like row for (e,u).
C21_ConcurrentSameUserLike ==
  \A p \in DOMAIN pc :
    (pc[p] = "done" /\ call[p].op \in {"Topic.like", "Comment.like"}) =>
      /\ call[p].error # "dup"
      /\ call[p].status = "ok" =>
           LikeTableOf(p)[<<call[p].id, call[p].userId>>] = 1

\* the calls of the concurrent synchronisation have all finished, each with
\* success or with a failure raised inside its transaction
SyncsFinished ==
  \A p \in DOMAIN pc :
    /\ SyncDone(p)
    /\ call[p].status = "ok" \/ call[p].failedAt \in FailingSteps

SyncsOk == {p \in DOMAIN pc : call[p].status = "ok"}

\* C22: when addTagsToTopic calls on the same topic run concurrently, then
\* after all have finished the topic's associations are exactly the resolved
\* references of one call that reported success, and a call that reported a
\* failure (a conflict among them) has left nothing behind: with no
\* successful call the tables are as before the calls. In particular both
\* calls succeeding with an association set that is neither call's set is
\* unreachable.
C22_ConcurrentSyncIsOneOfTheSets ==
  SyncsFinished =>
    /\ \A p \in DOMAIN pc : conn[p] = NoConn
    /\ SyncsOk # {} =>
         \E p \in SyncsOk :
           Assoc(topic_tags, SharedId) = ResolveAll(call[p].tags, tags)
    /\ SyncsOk = {} =>
         \A p \in DOMAIN pc :
           topic_tags = before[p].topic_tags /\ tags = before[p].tags
    /\ \A t \in tags :
         \/ \A p \in DOMAIN pc : t \in before[p].tags
         \/ \E p \in SyncsOk : t.name \in RefNames(call[p].tags)

\* two calls that were in flight together on a topic without tags both
\* succeeded, with different sets
C22_Witness ==
  /\ SyncsFinished
  /\ \E p, q \in SyncsOk :
       /\ ResolveAll(call[p].tags, tags) = {1}
       /\ ResolveAll(call[q].tags, tags) = {2}
       /\ before[p].topic_tags = {}
       /\ before[q].topic_tags = {}

\* the sets of tag ids that are complete for the contended topic: the set it
\* had before the calls, and the set of every synchronisation call all of
\* whose references have a tag row
CompleteSets ==
  {{1}} \cup
  {ResolveAll(call[w].tags, tags) :
     w \in {q \in DOMAIN pc :
              /\ call[q].op = "Tag.addTagsToTopic"
              /\ \A j \in 1..Len(call[q].tags) : Resolve(call[q].tags[j], tags) # {}}}

TagNames(ids) == {t.name : t \in {x \in tags : x.id \in ids}}

\* C23: while addTagsToTopic replaces a non-empty tag set of a topic by
\* another non-empty set, a concurrent Tag.getTopicTags or Topic.findById of
\* the topic returns the complete old set or the complete new set, never the
\* empty or a partially inserted set in between.
C23_ReadersSeeCompleteSets ==
  \A p \in DOMAIN pc :
    /\ (AtDone(p, "Tag.getTopicTags") /\ call[p].status = "ok") =>
         {t.id : t \in call[p].retTags} \in CompleteSets
    /\ (AtDone(p, "Topic.findById") /\ call[p].status = "ok") =>
         /\ call[p].found
         /\ \E S \in CompleteSets : call[p].items[1].tags = TagNames(S)

\* a reader arrived while the topic had the old set and returned the new set
\* of a synchronisation that was in flight
C23_Witness ==
  \E p, w \in DOMAIN pc :
    /\ AtDone(p, "Tag.getTopicTags") /\ call[p].status = "ok"
    /\ AtDone(w, "Tag.addTagsToTopic")
    /\ Assoc(before[p].topic_tags, SharedId) = {1}
    /\ Assoc(before[w].topic_tags, SharedId) = {1}
    /\ {t.id : t \in call[p].retTags} = {2, 3}

\* the connections an operation and the calls made inside it hold, and the
\* transactions they have open
ConnectionsHeld(p) == conn[p].held + conn[Nested(p)].held
TransactionsOpen(p) == Cardinality({q \in {p, Nested(p)} : conn[q].open})

\* C24: Topic.create and Topic.update with tags hold at most one pooled
\* connection and have at most one transaction open at any time: the tag
\* statements run on the connection and in the transaction of the topic
\* statement.
C24_OneConnectionOneTransaction ==
  \A p \in Procs :
    call[p].op \in {"Topic.create", "Topic.update"} =>
      /\ ConnectionsHeld(p) <= 1
      /\ TransactionsOpen(p) <= 1

\* the request has ended, or has left its try/finally block
Released(q) == pc[q] \in {"idle", "done", "Topic.findById.select", "Topic.findById.getTopicTags"}

\* C25: a pooled connection acquired by Tag.addTagsToTopic, Topic.create or
\* Topic.update is released exactly once on every path (success, failure of
\* beginTransaction, of a statement, of commit, of rollback): a request never
\* holds more than the one connection it acquired nor releases one it does
\* not hold, and holds none once it has ended.
C25_ConnectionReleasedOnce ==
  \A q \in DOMAIN pc :
    /\ conn[q].held \in {0, 1}
    /\ Released(q) => conn[q].held = 0 /\ ~conn[q].open

\* a Topic.create whose insert was refused and whose rollback failed as well
C25_Witness ==
  \E p \in Procs :
    /\ AtDone(p, "Topic.create")
    /\ call[p].failedAt = "rollback"
    /\ conn[p].held = 0

\* C26: every database call of every operation is bounded by the timeout, so
\* every operation that has started eventually ends, with a result or with a
\* failure, even if the store leaves a call unanswered.
C26_EveryOperationTerminates ==
  \A p \in TopicProcs : (pc[p] # "idle") ~> (pc[p] \in {"done", "idle"})

\* the statements of a listing call
ListingSteps == {"query", "count", "getTopicTags"}

\* C27: if the data query, the count query or a per-topic tag lookup of
\* Topic.getList / Comment.getList fails or times out, the call raises an
\* error; a result is returned only by a call none of whose statements
\* failed, and then with its items, its totalCount and its pageCount.
C27_ListingFailsAsAWhole ==
  \A p \in Procs :
    (pc[p] = "done" /\ IsListing(p)) =>
      /\ call[p].failedAt \in ListingSteps =>
           call[p].status = "error" /\ call[p].error # "none"
      /\ call[p].status = "ok" =>
           /\ call[p].failedAt = "none"
           /\ call[p].totalCount >= Len(call[p].items)
           /\ call[p].pageCount = MathCeil(call[p].totalCount, call[p].limitInt)

\* the rows were selected and counted, then a tag lookup failed
C27_Witness ==
  \E p \in Procs :
    /\ AtDone(p, "Topic.getList")
    /\ call[p].failedAt = "getTopicTags"
    /\ call[p].status = "error"
    /\ Len(call[p].items) > 0
    /\ call[p].totalCount > 0

\* C28: Topic.incrementViews never raises: when its update fails or times
\* out the call completes normally and the store is as before the call; when
\* it succeeds the views of the topic is one more than before and no other
\* column or row has changed.
C28_IncrementViewsIsBestEffort ==
  \A p \in Procs :
    AtDone(p, "Topic.incrementViews") =>
      /\ call[p].status = "ok"
      /\ Store = [before[p] EXCEPT !.topics =
                    IF call[p].failedAt = "none"
                    THEN IncrementViews(before[p].topics, call[p].id)
                    ELSE before[p].topics]

\* C29: Tag.create of a name that already has a tag row raises an error and
\* adds no row of that name; and in every state, whatever Tag.create and
\* addTagsToTopic calls introduce the same new name concurrently, no two
\* tag rows have the same name.
C29_TagNamesAreUnique ==
  /\ \A t1, t2 \in tags : t1.name = t2.name => t1 = t2
  /\ \A p \in DOMAIN pc :
       LET name == call[p].tags[1].str IN
       (AtDone(p, "Tag.create") /\ NamedRows(before[p].tags, name) # {}) =>
         /\ call[p].status = "error"
         /\ NamedRows(tags, name) = NamedRows(before[p].tags, name)

\* a Tag.create and an addTagsToTopic introduced the same new name together:
\* one made the row, the other was refused by UNIQUE (name)
C29_Witness ==
  \E p, q \in DOMAIN pc :
    /\ AtDone(p, "Tag.create") /\ call[p].error = "dup"
    /\ NamedRows(before[p].tags, <<"b">>) = {}
    /\ AtDone(q, "Tag.addTagsToTopic") /\ call[q].status = "ok"
    /\ NamedRows(before[q].tags, <<"b">>) = {}
    /\ Cardinality(NamedRows(tags, <<"b">>)) = 1

\* C30: once Tag.delete(id) has returned true the tags row id is gone and no
\* topic_tags row references id; and in every state, also when Tag.delete is
\* interleaved with an addTagsToTopic that references the same tag, every
\* topic_tags row references a tags row.
C30_AssociationsReferenceTags ==
  /\ \A r \in topic_tags : SelectTagById(tags, r[2]) # {}
  /\ \A p \in DOMAIN pc :
       (AtDone(p, "Tag.delete") /\ call[p].status = "ok" /\ call[p].found) =>
         /\ SelectTagById(tags, call[p].id) = {}
         /\ TagReferences(topic_tags, call[p].id) = {}

\* a Tag.delete returned true although the tag was referenced when it was
\* called, while an addTagsToTopic that referenced the tag by id had read it
\* and was refused by the foreign key
C30_Witness ==
  \E p, q \in DOMAIN pc :
    /\ AtDone(p, "Tag.delete") /\ call[p].status = "ok" /\ call[p].found
    /\ TagReferences(before[p].topic_tags, call[p].id) # {}
    /\ AtDone(q, "Tag.addTagsToTopic") /\ call[q].error = "fk"

\* C31: the likesCount and commentsCount that Topic.getList, Topic.findById
\* and Comment.getList report are the numbers of rows of the like and
\* comment tables at the time of the read, whatever the stored likes_count
\* and comments_count columns hold, and are numbers (0 when there is no row).
C31_CountsAreReadFromTheTables ==
  \A p \in Procs :
    /\ (Returned(p, "Topic.getList") \/ Returned(p, "Topic.findById")) =>
         \A j \in 1..Len(call[p].items) :
           LET it == call[p].items[j] IN
           /\ it.likesCount \in Nat /\ it.commentsCount \in Nat
           /\ it.likesCount = Cardinality({u \in UserIds : topic_likes[<<it.id, u>>] > 0})
           /\ it.commentsCount =
                Cardinality({c \in DOMAIN comments :
                   comments[c].topic_id = it.id /\ comments[c].status = "active"})
    /\ Returned(p, "Comment.getList") =>
         \A j \in 1..Len(call[p].items) :
           LET it == call[p].items[j] IN
           /\ it.likesCount \in Nat
           /\ it.likesCount = Cardinality({u \in UserIds : comment_likes[<<it.id, u>>] > 0})

\* a topic is reported with a likesCount that differs from its stored
\* counter, and another topic is reported with a likesCount of 0
C31_Witness ==
  \E p \in Procs :
    /\ Returned(p, "Topic.getList")
    /\ \E j \in 1..Len(call[p].items) :
         LET it == call[p].items[j] IN
         it.likesCount # topics[it.id].likes_count
    /\ \E j \in 1..Len(call[p].items) : call[p].items[j].likesCount = 0

\* the Topic.create or Topic.update call of p has ended with a failure of one
\* of its steps up to its commit (a failure of the read-back that follows
\* the commit is left aside)
TopicWriteFailed(p) ==
  /\ AtDone(p, "Topic.create") \/ AtDone(p, "Topic.update")
  /\ call[p].status = "error"
  /\ call[p].failedAt \notin {"select", "getTopicTags"}

TopicWriteOk(p) ==
  /\ AtDone(p, "Topic.create") \/ AtDone(p, "Topic.update")
  /\ call[p].status = "ok"

\* C32: Topic.create and Topic.update with tags are all-or-nothing: when the
\* call fails at any step, the outer commit after the tag synchronisation
\* included, the topics, topic_tags and tags tables are as they were before
\* the call; when it succeeds the topic row has the given fields and the
\* topic is associated with exactly the tags that were passed.
C32_TopicWriteIsAllOrNothing ==
  \A p \in Procs :
    /\ TopicWriteFailed(p) =>
         /\ topics = before[p].topics
         /\ topic_tags = before[p].topic_tags
         /\ tags = before[p].tags
    /\ (TopicWriteOk(p) /\ call[p].found) =>
         LET d == call[p].data
             row == topics[call[p].id]
         IN /\ d.hasTitle => row.title = d.title
            /\ d.hasCategory => row.category = d.category
            /\ d.hasTags =>
                 Assoc(topic_tags, call[p].id) = ResolveAll(call[p].tags, tags)

\* C33: Topic.findById(id, viewer) with a viewer id returns the active topic
\* whose id is id, or nothing when there is none, and its isLiked tells
\* whether topic_likes has a row for (id, viewer).
C33_FindByIdBindsInPlaceholderOrder ==
  \A p \in Procs :
    (Returned(p, "Topic.findById") /\ call[p].userId # 0) =>
      LET id == call[p].id
          active == id \in DOMAIN topics /\ topics[id].status = "active"
      IN /\ call[p].found <=> active
         /\ call[p].found =>
              /\ call[p].items[1].id = id
              /\ call[p].items[1].isLiked <=> topic_likes[<<id, call[p].userId>>] > 0

\* the parameter array fits the statement: as many parameters as the
\* statement has placeholders, the i-th meant for the i-th placeholder
Fits(tokens, params) ==
  /\ Len(Placeholders(tokens)) = Len(params)
  /\ \A j \in 1..Len(params) :
       j <= Len(Placeholders(tokens)) => Placeholders(tokens)[j] = params[j].for

\* C34: for every combination of the filters tag, category, search and
\* viewer id, the data statement and the count statement of Topic.getList
\* have the same WHERE clause and the same parameters in the same order, and
\* in each of them the parameters fit the placeholders one by one; likewise
\* for Comment.getList.
C34_CountQueryMirrorsDataQuery ==
  \A p \in Procs :
    LET o == call[p].options IN
    /\ call[p].op = "Topic.getList" =>
         /\ TopicParams(o) = TopicCountParams(o)
         /\ Fits(TopicQuery(o), TopicParams(o))
         /\ Fits(TopicCountQuery(o), TopicCountParams(o))
    /\ call[p].op = "Comment.getList" =>
         /\ CommentParams(o) = CommentCountParams(o)
         /\ Fits(CommentQuery(o), CommentParams(o))
         /\ Fits(CommentCountQuery(o), CommentCountParams(o))

\* C35: Topic.getList with a tag filter T succeeds and returns the active
\* topics associated with the tag whose id is T when T is purely numeric,
\* with the tag whose name is T otherwise: every returned topic is one of
\* them, none is returned twice, and all of them are returned when the page
\* holds them all.
C35_TagFilterByIdOrName ==
  \A p \in Procs :
    (/\ ListDone(p, "Topic.getList") /\ PagingUsable(p)
     /\ Truthy(call[p].options.tag)) =>
      LET o == call[p].options
          match == {t \in DOMAIN topics : Satisfies(t, o)}
          items == call[p].items
      IN /\ call[p].status = "ok"
         /\ \A j \in 1..Len(items) : items[j].id \in match
         /\ \A j, k \in 1..Len(items) : items[j].id = items[k].id => j = k
         /\ (call[p].offset.n = 0 /\ call[p].limitInt.n >= Cardinality(match)) =>
              {items[j].id : j \in 1..Len(items)} = match

\* C36: in every state, after any sequence and interleaving of like and
\* unlike calls, topic_likes has at most one row per (topic, user) and
\* comment_likes at most one row per (comment, user).
C36_OneLikeRowPerPair ==
  /\ \A k \in DOMAIN topic_likes : topic_likes[k] <= 1
  /\ \A k \in DOMAIN comment_likes : comment_likes[k] <= 1

\* two likes of one user ran together: both found no row, one inserted it,
\* the INSERT of the other was refused by the UNIQUE KEY
C36_Witness ==
  \E p, q \in DOMAIN pc :
    /\ AtDone(p, "Comment.like") /\ call[p].error = "dup"
    /\ AtDone(q, "Comment.like") /\ call[q].status = "ok"
    /\ call[p].id = call[q].id /\ call[p].userId = call[q].userId
    /\ comment_likes[<<call[p].id, call[p].userId>>] = 1

\* every request has ended, none with an error
AllCompleted ==
  \A q \in DOMAIN pc : pc[q] \in {"idle", "done"} /\ call[q].status # "error"

\* C37: once Comment.create and Comment.delete calls, interleaved statement
\* by statement, have all completed without error, the stored comments_count
\* of every topic is the number of its comments with status active.
C37_CommentsCountSettles ==
  AllCompleted =>
    \A t \in DOMAIN topics :
      topics[t].comments_count =
        Cardinality({c \in DOMAIN comments :
           comments[c].topic_id = t /\ comments[c].status = "active"})

\* a Comment.create and a Comment.delete on the same topic that started from
\* the same store have both completed
C37_Witness ==
  \E p, q \in DOMAIN pc :
    /\ AllCompleted
    /\ AtDone(p, "Comment.create") /\ call[p].found
    /\ AtDone(q, "Comment.delete") /\ call[q].ret = 1
    /\ before[p].comments = before[q].comments
    /\ call[q].id \in DOMAIN before[p].comments
    /\ before[p].comments[call[q].id].status = "active"
    /\ comments[call[p].id].topic_id = comments[call[q].id].topic_id

\* the like table the call writes, as it is now
LikesNow(p) ==
  IF call[p].op \in {"Topic.like", "Topic.unlike"} THEN topic_likes ELSE comment_likes

\* C39: when the INSERT of a like or the DELETE of an unlike loses the race
\* against the 15-second timer and the call reports the failure, the
\* statement's effect is not applied: the like rows are those the call found
C39_TimedOutStatementHasNoEffect ==
  \A p \in Procs :
    (/\ pc[p] = "done"
     /\ IsLikeOp(call[p].op)
     /\ call[p].error = "store"
     /\ call[p].failedAt \in {"insert", "delete"})
    => LikesNow(p) = LikesBefore(p)

====
